---- MODULE Spec2Model ----
(***************************************************************************)
(* Quote aggregation engine of epxteku/API_shared_snippet.                 *)
(*                                                                         *)
(* The module models one serving process: the /api/quote handler           *)
(* (paths/quote.rs), process_quote (services/quote_service.rs),            *)
(* route_quote (services/quote_router.rs) with the collaborators it calls  *)
(* (fetch_gas_price, filter_dapps, fetch_token_details, the provider       *)
(* quote builders), the detached eviction tasks and the wall clock.        *)
(*                                                                         *)
(* JSON objects are functions from their keys; JSON strings that the code  *)
(* compares byte-wise (toAmount) are sequences of decimal digits.          *)
(***************************************************************************)
EXTENDS Integers, Sequences, FiniteSets, TLC

(***************************************************************************)
(* Program constants                                                       *)
(***************************************************************************)
\* quote_router.rs:114  timeout(Duration::from_secs(30), ...)
PROVIDER_TIMEOUT_SECS == 30
\* quote_service.rs:36  sleep(Duration::from_secs(600))
RETENTION_SECS == 600
\* utils.rs:91  let max_retries = 10
max_retries == 10

(***************************************************************************)
(* Bounds of the model                                                     *)
(***************************************************************************)
\* number of requests the handler serves in one behaviour
MaxRequests == 2
\* size of one step of the wall clock, in seconds
TickSecs == 300
\* the wall clock stops here
MaxTime == 960

(***************************************************************************)
(* Strings of digits                                                       *)
(***************************************************************************)
RECURSIVE to_string(_)
\* U256::to_string: the decimal digits of n, most significant first
to_string(n) ==
    IF n < 10 THEN <<n>> ELSE Append(to_string(n \div 10), n % 10)

RECURSIVE StrLess(_, _)
\* str::cmp(a, b) = Less: byte-wise lexicographic order, a proper prefix first
StrLess(a, b) ==
    IF b = <<>> THEN FALSE
    ELSE IF a = <<>> THEN TRUE
    ELSE IF Head(a) # Head(b) THEN Head(a) < Head(b)
    ELSE StrLess(Tail(a), Tail(b))

RECURSIVE from_dec_str(_)
\* U256::from_dec_str on a digit string
from_dec_str(s) ==
    IF s = <<>> THEN 0 ELSE 10 * from_dec_str(SubSeq(s, 1, Len(s) - 1)) + s[Len(s)]

(***************************************************************************)
(* Loaded configuration (AppState)                                         *)
(***************************************************************************)
\* a JSON number / a JSON string inside a heterogeneous JSON array
JNum(n) == [num |-> n]
JStr(s) == [str |-> s]
\* Value::as_u64 / Value::as_str succeed
IsNum(v) == "num" \in DOMAIN v
IsStr(v) == "str" \in DOMAIN v

\* the elements of a sequence
Range(s) == { s[i] : i \in DOMAIN s }

\* token addresses of the model
ZERO_ADDRESS == "0x0000"
USDC == "0xa0b8"
UNLISTED == "0xdead"
\* a token tokens.json lists on chain 324 only
WETH == "0x5aea"
EEEE_ADDRESS == "0xeeee"
\* USDC as a checksummed (mixed-case) address
USDC_CHECKSUM == "0xA0b8"

\* str::to_lowercase on the addresses of the model
to_lowercase(a) == IF a = USDC_CHECKSUM THEN USDC ELSE a

\* state.dapp_config: provider name -> its configuration object; a key that a
\* provider's object does not carry is missing from the function's domain
dapp_config ==
    [ across   |-> [ enabled |-> TRUE, tokens |-> <<JStr("all")>>,
                     fromChainIds |-> <<JNum(1)>>,
                     toChainIds |-> <<JNum(1), JNum(324)>>,
                     bridge |-> TRUE ],
      bungee   |-> [ enabled |-> FALSE, tokens |-> <<JStr("all")>>,
                     fromChainIds |-> <<JStr("all")>>,
                     toChainIds |-> <<JStr("all")>> ],
      jumper   |-> [ enabled |-> TRUE, tokens |-> <<JStr(USDC)>>,
                     ethAddress |-> ZERO_ADDRESS,
                     fromChainIds |-> <<JNum(1), JStr("solana")>>,
                     toChainIds |-> <<JStr("all")>> ],
      koi      |-> [ enabled |-> TRUE, tokens |-> <<JStr("all")>>,
                     fromChainIds |-> <<JStr("zksync")>>,
                     toChainIds |-> <<JNum(324)>>,
                     bridge |-> FALSE ],
      paraswap |-> [ enabled |-> TRUE, tokens |-> <<JStr("all")>>,
                     fromChainIds |-> <<JNum(10), JNum(324)>>,
                     toChainIds |-> <<JNum(10), JNum(324)>> ] ]

\* iteration order of the dapp_config object (serde_json's map is ordered by key)
dapp_names == <<"across", "bungee", "jumper", "koi", "paraswap">>

\* state.rpc_config: chain id written as a string of digits -> {name}
rpc_config ==
    { [id |-> <<1>>, name |-> "ethereum"], [id |-> <<3, 2, 4>>, name |-> "zksync"] }

\* state.rpc_proxy_providers: the (chain id, endpoint) keys of the RPC pool
rpc_proxy_providers == { <<1, "rpc-a">>, <<1, "rpc-b">>, <<324, "rpc-a">> }

\* dapps::AVAILABLE_SERVICES: the provider names that have a quote builder
AVAILABLE_SERVICES == { "across", "jumper", "koi" }

\* utils::get_random_rpc_proxy_provider: the endpoints the random choice ranges over
get_random_rpc_proxy_provider(chain_id) ==
    { e \in rpc_proxy_providers : e[1] = chain_id }

(***************************************************************************)
(* filter_dapps                                                            *)
(***************************************************************************)
\* create_chain_name_to_id_map: name -> id for the entries whose key parses as u64
create_chain_name_to_id_map ==
    { <<e.name, from_dec_str(e.id)>> : e \in rpc_config }

\* resolve_chain_ids: numbers as they are, names through the map, the rest dropped
resolve_chain_ids(chain_identifiers) ==
    { v.num : v \in { x \in Range(chain_identifiers) : IsNum(x) } }
    \cup { m[2] : m \in { y \in create_chain_name_to_id_map :
                            \E x \in Range(chain_identifiers) : IsStr(x) /\ x.str = y[1] } }

\* lines 58-68: the token list names the token or "all", or, while going through
\* a non-empty list, the ethAddress alias equals the token
supports_token(config, token_address) ==
    IF "tokens" \in DOMAIN config
    THEN \E token \in Range(config.tokens) :
            \/ token = JStr("all")
            \/ token = JStr(token_address)
            \/ ("ethAddress" \in DOMAIN config /\ config.ethAddress = token_address)
    ELSE FALSE

\* a bridge rule that takes a provider without a bridge key for a same-chain one
bridge_allows_unset_strict(config, from_chain_id, to_chain_id) ==
    ("bridge" \notin DOMAIN config \/ config.bridge = FALSE) => from_chain_id = to_chain_id

\* lines 98-123: only bridge = false asks for from_chain_id == to_chain_id
bridge_allows(config, from_chain_id, to_chain_id) ==
    ("bridge" \in DOMAIN config /\ config.bridge = FALSE) => from_chain_id = to_chain_id

\* the closure of filter_dapps: does a provider with this configuration pass
dapp_passes(config, token_address, from_chain_id, to_chain_id) ==
    LET has(k) == k \in DOMAIN config
        enabled == IF has("enabled") THEN config.enabled ELSE FALSE
        from_chain_ids == IF has("fromChainIds") THEN resolve_chain_ids(config.fromChainIds) ELSE {}
        to_chain_ids == IF has("toChainIds") THEN resolve_chain_ids(config.toChainIds) ELSE {}
        supports_any_from_chain == has("fromChainIds") /\ JStr("all") \in Range(config.fromChainIds)
        supports_any_to_chain == has("toChainIds") /\ JStr("all") \in Range(config.toChainIds)
        supports_from_chain == supports_any_from_chain \/ from_chain_id \in from_chain_ids
        supports_to_chain == supports_any_to_chain \/ to_chain_id \in to_chain_ids
    IN  /\ enabled
        /\ supports_token(config, token_address) /\ supports_from_chain /\ supports_to_chain
        /\ bridge_allows(config, from_chain_id, to_chain_id)

\* filter_dapps over a given state.dapp_config: the names that pass, in the order
\* of the configuration object
filter_dapps_in(state_dapp_config, names, token_address, from_chain_id, to_chain_id) ==
    LET Keep(name) == dapp_passes(state_dapp_config[name], token_address, from_chain_id, to_chain_id)
    IN  SelectSeq(names, Keep)

\* filter_dapps with the state of the server
filter_dapps(token_address, from_chain_id, to_chain_id) ==
    filter_dapps_in(dapp_config, dapp_names, token_address, from_chain_id, to_chain_id)

(***************************************************************************)
(* Requests the handler passes to process_quote                            *)
(***************************************************************************)
\* a JSON object with no key
EmptyObject == [k \in {} |-> k]

\* options without a dapps key, with an empty list, with an explicit list
NoDapps == EmptyObject
WithDapps(list) == [dapps |-> list]

\* transaction_params as handle_quote_request builds them (toChainId is always set)
Params(from_chain, to_chain, from_token, to_token, options) ==
    [ fromChainId |-> from_chain, toChainId |-> to_chain,
      fromTokenAddress |-> from_token, toTokenAddress |-> to_token,
      options |-> options ]

\* the requests of the model
Requests ==
    { Params(1, 1, USDC, ZERO_ADDRESS, NoDapps),
      Params(324, 324, USDC, ZERO_ADDRESS, WithDapps(<<>>)),
      Params(1, 1, USDC, ZERO_ADDRESS, WithDapps(<<"jumper", "bungee", "koi">>)),
      Params(324, 324, USDC, ZERO_ADDRESS, WithDapps(<<"paraswap">>)),
      Params(1, 10, UNLISTED, USDC, NoDapps),
      Params(1, 324, USDC, WETH, NoDapps),
      Params(1, 324, USDC, USDC, NoDapps),
      Params(324, 324, USDC, ZERO_ADDRESS, WithDapps(<<"koi", "koi">>)),
      Params(10, 10, USDC, ZERO_ADDRESS, NoDapps) }

\* no request is being served
NoParams == EmptyObject

(***************************************************************************)
(* State                                                                   *)
(***************************************************************************)
VARIABLES
    call,           \* the arguments of the format_swap_details call under way
    formatted,      \* what that call returned
    filter_call,    \* the arguments of the filter_dapps call under way
    filter_result,  \* what that call returned
    build_call,     \* the format_swap_details call of the quote builder under way
    gas_calls,      \* the estimate_gas calls that builder's formatter has made
    built,          \* what the quote builder returned to its future
    build_output,   \* the Option the future produced for join_all
    savers,         \* the fetch_token_details calls saving tokens side by side
    now,            \* wall clock, seconds since the process started
    tokens,         \* state.tokens: DashMap<String, Value>
    quote_cache,    \* state.quote_cache: DashMap<String, Value>
    evictions,      \* detached eviction tasks asleep: {[id, wake]}
    served,         \* number of requests handled so far
    pc,             \* where the request being served stands
    params,         \* route_quote's params
    attempts,       \* fetch_gas_price's attempts
    gas_prices,     \* the pair fetch_gas_price returned
    available_dapps_names,  \* the result of filter_dapps
    fetched_tokens, \* fetch_token_details' fetched_tokens
    services_to_run,\* the names whose quote builder runs
    dispatched_at,  \* when the provider futures were created
    futures,        \* join_all's slots: "pending", or the Option each future produced
    elapsed,        \* the slots whose timeout fired (what the warn! at line 133 logs)
    quote_result,   \* what the spawned route_quote task ended with
    response,       \* what the handler answered
    outbound,       \* the kinds of outbound HTTP/RPC calls made for this request
    stored          \* log of the envelopes process_quote stored: {[id, at, envelope]}

\* the server's variables, and all of them with the formatter's
server == << now, tokens, quote_cache, evictions, served, pc, params, attempts,
             gas_prices, available_dapps_names, fetched_tokens, services_to_run,
             dispatched_at, futures, elapsed, quote_result, response, outbound, stored >>

formatter == << call, formatted >>

\* the variables of a filter_dapps call on its own
filtering == << filter_call, filter_result >>

\* the variables of one provider future on its own
building == << build_call, gas_calls, built, build_output >>

\* the variables of the concurrent save_token_to_new_tokens calls
saving == << savers >>

vars == << server, formatter, filtering, building, saving >>

\* the request-local variables of route_quote, as a group
locals == << attempts, gas_prices, available_dapps_names, fetched_tokens,
             services_to_run, dispatched_at, futures, elapsed >>

\* the pair of empty strings: gas_prices before fetch_gas_price returns
NoGas == [wei |-> <<>>, gwei |-> <<>>]

\* nothing yet: quote_result before the task ends, response before the handler answers
Nothing == [kind |-> "none"]

\* no call of format_swap_details under way
NoCall == EmptyObject

\* tokens.json as config/tokens.json holds it: chain id -> the token addresses listed
tokens_file ==
    { <<1, ZERO_ADDRESS>>, <<1, USDC>>, <<324, ZERO_ADDRESS>>, <<324, USDC>>, <<324, WETH>> }

\* create_app_state: "tokens" holds the flat "chainId:address" lookup map
\* the fetch_token_details calls that run side by side, one per aggregation
Savers == { 1, 2 }

\* a call that is not inside save_token_to_new_tokens and has saved nothing yet
IdleSaver == [ stage |-> "idle", saved |-> <<>> ]

Init ==
    /\ now = 0
    /\ tokens = [k \in {"tokens"} |-> [shape |-> "lookup", entries |-> tokens_file]]
    /\ quote_cache = EmptyObject
    /\ evictions = {}
    /\ served = 0
    /\ pc = "idle"
    /\ params = NoParams
    /\ attempts = 0
    /\ gas_prices = NoGas
    /\ available_dapps_names = <<>>
    /\ fetched_tokens = <<>>
    /\ services_to_run = <<>>
    /\ dispatched_at = 0
    /\ futures = <<>>
    /\ elapsed = {}
    /\ quote_result = Nothing
    /\ response = Nothing
    /\ outbound = {}
    /\ stored = {}
    /\ call = NoCall
    /\ formatted = Nothing
    /\ filter_call = NoCall
    /\ filter_result = Nothing
    /\ build_call = NoCall
    /\ gas_calls = [ estimate_gas_limit |-> 0, estimate_gas |-> 0 ]
    /\ built = Nothing
    /\ build_output = Nothing
    /\ savers = [ task \in Savers |-> IdleSaver ]

(***************************************************************************)
(* The handler takes a request                                             *)
(***************************************************************************)
\* handle_quote_request calls process_quote, which spawns route_quote(params)
Request(p) ==
    /\ pc = "idle"
    /\ served < MaxRequests
    /\ served' = served + 1
    /\ params' = p
    /\ pc' = "gas"
    /\ quote_result' = Nothing
    /\ response' = Nothing
    /\ outbound' = {}
    /\ UNCHANGED << formatter, filtering, building, saving >>
    /\ UNCHANGED << now, tokens, quote_cache, evictions, stored, locals >>

(***************************************************************************)
(* fetch_gas_price                                                         *)
(***************************************************************************)
\* the zero-value pair the function falls back to
ZeroGas == [wei |-> <<0>>, gwei |-> <<0>>]
\* a pair a provider answered with: 20 gwei
SomeGas == [wei |-> to_string(20) \o <<0, 0, 0, 0, 0, 0, 0, 0, 0>>, gwei |-> to_string(20)]

\* no endpoint for the chain: break, and the zero pair is returned without a call
fetch_gas_price_no_provider ==
    /\ pc = "gas"
    /\ get_random_rpc_proxy_provider(params.fromChainId) = {}
    /\ gas_prices' = ZeroGas
    /\ attempts' = 0
    /\ pc' = "filter"
    /\ UNCHANGED << formatter, filtering, building, saving >>
    /\ UNCHANGED << now, tokens, quote_cache, evictions, served, params, stored,
                    available_dapps_names, fetched_tokens, services_to_run,
                    dispatched_at, futures, elapsed, quote_result, response, outbound >>

\* a retry loop that gives the last failure back as an error, which fails the request
fetch_gas_price_attempt_propagates(ok) ==
    /\ pc = "gas"
    /\ \E provider \in get_random_rpc_proxy_provider(params.fromChainId) : TRUE
    /\ outbound' = outbound \cup {"gas"}
    /\ IF ok
       THEN /\ gas_prices' = SomeGas
            /\ attempts' = 0
            /\ pc' = "filter"
       ELSE IF attempts + 1 < max_retries
       THEN /\ attempts' = attempts + 1
            /\ UNCHANGED << gas_prices, pc >>
       ELSE /\ gas_prices' = ZeroGas
            /\ attempts' = 0
            /\ pc' = "returned"
    /\ quote_result' = IF ~ok /\ attempts + 1 >= max_retries
                       THEN [kind |-> "err", error |-> "Failed to fetch gas prices"] ELSE quote_result
    /\ UNCHANGED << formatter, filtering, building, saving >>
    /\ UNCHANGED << now, tokens, quote_cache, evictions, served, params, stored,
                    available_dapps_names, fetched_tokens, services_to_run,
                    dispatched_at, futures, elapsed, response >>

\* one iteration of the retry loop: provider.get_gas_price() answers or fails
fetch_gas_price_attempt(ok) ==
    /\ pc = "gas"
    /\ \E provider \in get_random_rpc_proxy_provider(params.fromChainId) : TRUE
    /\ outbound' = outbound \cup {"gas"}
    /\ IF ok
       THEN /\ gas_prices' = SomeGas
            /\ attempts' = 0
            /\ pc' = "filter"
       ELSE IF attempts + 1 < max_retries
       THEN /\ attempts' = attempts + 1
            /\ UNCHANGED << gas_prices, pc >>
       ELSE /\ gas_prices' = ZeroGas
            /\ attempts' = 0
            /\ pc' = "filter"
    /\ UNCHANGED << formatter, filtering, building, saving >>
    /\ UNCHANGED << now, tokens, quote_cache, evictions, served, params, stored,
                    available_dapps_names, fetched_tokens, services_to_run,
                    dispatched_at, futures, elapsed, quote_result, response >>

(***************************************************************************)
(* route_quote: eligibility                                                *)
(***************************************************************************)
\* Ok(value) / Err(message) / the task panicked
Ok(value) == [kind |-> "ok", value |-> value]
Err(error) == [kind |-> "err", error |-> error]
Panicked == [kind |-> "panic"]

\* json!({"success": false, "message": m})
Failure(m) == [success |-> FALSE, message |-> m]

\* lines 33-47: filter_dapps, and the early return when nothing is eligible
route_quote_filter ==
    /\ pc = "filter"
    /\ LET names == filter_dapps(params.fromTokenAddress, params.fromChainId, params.toChainId)
       IN  /\ available_dapps_names' = names
           /\ IF names = <<>>
              THEN /\ quote_result' = Ok(Failure("No dApps available"))
                   /\ pc' = "returned"
              ELSE /\ quote_result' = quote_result
                   /\ pc' = "tokens"
    /\ UNCHANGED << formatter, filtering, building, saving >>
    /\ UNCHANGED << now, tokens, quote_cache, evictions, served, params, stored,
                    attempts, gas_prices, fetched_tokens, services_to_run,
                    dispatched_at, futures, elapsed, response, outbound >>

(***************************************************************************)
(* fetch_token_details                                                     *)
(***************************************************************************)
\* Option<T>
None == [st |-> "none"]
Some(v) == [st |-> "some", value |-> v]
IsSome(o) == o.st = "some"

\* normalize_token_address
normalize_token_address(token_address) ==
    IF to_lowercase(token_address) = EEEE_ADDRESS
    THEN ZERO_ADDRESS
    ELSE to_lowercase(token_address)

\* route_quote lines 53-57
tokens_with_chain_ids ==
    << <<params.fromTokenAddress, params.fromChainId>>,
       <<params.toTokenAddress, params.toChainId>>,
       <<ZERO_ADDRESS, params.fromChainId>> >>

\* a TokenInfo read from tokens.json (it carries a price) / resolved on chain (no price)
ListedToken(address, chain_id) == [address |-> address, chainId |-> chain_id, priceUSD |-> TRUE]
NetworkToken(address, chain_id) == [address |-> address, chainId |-> chain_id, priceUSD |-> FALSE]

\* find_tokens_in_json: only a value with a top-level "tokens" key (the file's shape)
\* yields anything; every address is looked up under the one chain_id passed in
find_tokens_in_json(tokens_value, chain_id, normalized_addresses) ==
    [ i \in DOMAIN normalized_addresses |->
        IF tokens_value.shape = "file"
           /\ \E e \in tokens_value.entries :
                e[1] = chain_id /\ to_lowercase(e[2]) = to_lowercase(normalized_addresses[i])
        THEN Some(ListedToken(
                (CHOOSE e \in tokens_value.entries :
                    e[1] = chain_id /\ to_lowercase(e[2]) = to_lowercase(normalized_addresses[i]))[2],
                chain_id))
        ELSE None ]

\* lines 74-103: the cache pass of fetch_token_details
fetch_token_details_cache ==
    /\ pc = "tokens"
    /\ LET normalized_addresses ==
               [ i \in DOMAIN tokens_with_chain_ids |->
                   normalize_token_address(tokens_with_chain_ids[i][1]) ]
           chain_id == tokens_with_chain_ids[1][2]
           json_tokens == IF "tokens" \in DOMAIN tokens THEN Some(tokens["tokens"])
                          ELSE IF "new_tokens" \in DOMAIN tokens THEN Some(tokens["new_tokens"])
                          ELSE None
       IN  fetched_tokens' =
               IF IsSome(json_tokens)
               THEN find_tokens_in_json(json_tokens.value, chain_id, normalized_addresses)
               ELSE [ i \in DOMAIN tokens_with_chain_ids |-> None ]
    /\ pc' = "tokens_net"
    /\ UNCHANGED << formatter, filtering, building, saving >>
    /\ UNCHANGED << now, tokens, quote_cache, evictions, served, params, stored,
                    attempts, gas_prices, available_dapps_names, services_to_run,
                    dispatched_at, futures, elapsed, quote_result, response, outbound >>

\* the first slot still None: the one the loop at lines 106-120 fetches next
missing_idx ==
    CHOOSE i \in DOMAIN fetched_tokens :
        /\ ~IsSome(fetched_tokens[i])
        /\ \A j \in DOMAIN fetched_tokens : j < i => IsSome(fetched_tokens[j])

\* lines 161-163: state.tokens.get("new_tokens"), cloned, or an empty object
get_new_tokens ==
    IF "new_tokens" \in DOMAIN tokens THEN tokens["new_tokens"].chains ELSE EmptyObject

\* lines 165-170: push the token onto its chain's list
push_token(new_tokens, token_info) ==
    LET chain_tokens == IF token_info.chainId \in DOMAIN new_tokens
                        THEN new_tokens[token_info.chainId]
                        ELSE <<>>
    IN  [ c \in DOMAIN new_tokens \cup {token_info.chainId} |->
            IF c = token_info.chainId
            THEN Append(chain_tokens, token_info)
            ELSE new_tokens[c] ]

\* lines 172-173: state.tokens.insert("new_tokens", new_tokens_value)
insert_new_tokens(new_tokens) ==
    [ k \in DOMAIN tokens \cup {"new_tokens"} |->
        IF k = "new_tokens"
        THEN [shape |-> "new_tokens", chains |-> new_tokens]
        ELSE tokens[k] ]

\* save_token_to_new_tokens: push onto the chain's list under "new_tokens"
save_token_to_new_tokens(token_info) ==
    insert_new_tokens(push_token(get_new_tokens, token_info))

\* fetch_token_from_network line 126: no endpoint for the token's chain
fetch_token_no_provider ==
    /\ pc = "tokens_net"
    /\ \E i \in DOMAIN fetched_tokens : ~IsSome(fetched_tokens[i])
    /\ get_random_rpc_proxy_provider(tokens_with_chain_ids[missing_idx][2]) = {}
    /\ quote_result' = Err("Failed to fetch token details")
    /\ pc' = "returned"
    /\ UNCHANGED << formatter, filtering, building, saving >>
    /\ UNCHANGED << now, tokens, quote_cache, evictions, served, params, stored,
                    attempts, gas_prices, available_dapps_names, fetched_tokens,
                    services_to_run, dispatched_at, futures, elapsed, response, outbound >>

\* fetch_token_from_network: symbol() and decimals() answer, or one of them fails
fetch_token_from_network(ok) ==
    /\ pc = "tokens_net"
    /\ \E i \in DOMAIN fetched_tokens : ~IsSome(fetched_tokens[i])
    /\ LET idx == missing_idx
           chain_id == tokens_with_chain_ids[idx][2]
           normalized_address == normalize_token_address(tokens_with_chain_ids[idx][1])
           network_token_info == NetworkToken(normalized_address, chain_id)
       IN  /\ get_random_rpc_proxy_provider(chain_id) # {}
           /\ outbound' = outbound \cup {"token"}
           /\ IF ok
              THEN /\ tokens' = save_token_to_new_tokens(network_token_info)
                   /\ fetched_tokens' = [fetched_tokens EXCEPT ![idx] = Some(network_token_info)]
                   /\ UNCHANGED << quote_result, pc >>
              ELSE /\ quote_result' = Err("Failed to fetch token details")
                   /\ pc' = "returned"
                   /\ UNCHANGED << tokens, fetched_tokens >>
    /\ UNCHANGED << formatter, filtering, building, saving >>
    /\ UNCHANGED << now, quote_cache, evictions, served, params, stored,
                    attempts, gas_prices, available_dapps_names,
                    services_to_run, dispatched_at, futures, elapsed, response >>

(***************************************************************************)
(* route_quote: dispatch, join, rank                                       *)
(***************************************************************************)
\* a selection that leaves the caller's list aside
select_services_ignores_list(options, available) ==
    LET HasService(dapp) == dapp \in AVAILABLE_SERVICES
    IN  SelectSeq(available, HasService)

\* lines 71-100: the names whose quote builder runs, in order
select_services(options, available) ==
    LET HasService(dapp) == dapp \in AVAILABLE_SERVICES
        Chosen(dapp) == dapp \in Range(available) /\ dapp \in AVAILABLE_SERVICES
    IN  IF "dapps" \in DOMAIN options /\ options.dapps # <<>>
        THEN SelectSeq(options.dapps, Chosen)
        ELSE SelectSeq(available, HasService)

\* a slot of join_all: the future is still running
Pending == [st |-> "pending"]

\* a dispatch that goes ahead with the tokens it has, resolved or not
route_quote_dispatch_unresolved ==
    /\ pc = "tokens_net"
    /\ LET services == select_services(params.options, available_dapps_names)
       IN  /\ services_to_run' = services
           /\ IF services = <<>>
              THEN /\ quote_result' = Ok(Failure("No valid quotes found."))
                   /\ pc' = "returned"
                   /\ UNCHANGED << futures, elapsed, dispatched_at, outbound >>
              ELSE /\ futures' = [ i \in DOMAIN services |-> Pending ]
                   /\ elapsed' = {}
                   /\ dispatched_at' = now
                   /\ outbound' = outbound \cup {"provider"}
                   /\ pc' = "join"
                   /\ UNCHANGED quote_result
    /\ UNCHANGED << formatter, filtering, building, saving >>
    /\ UNCHANGED << now, tokens, quote_cache, evictions, served, params, stored,
                    attempts, gas_prices, available_dapps_names, fetched_tokens,
                    response >>

\* lines 102-138: nothing to run, or one future per service under its own timeout
route_quote_dispatch ==
    /\ pc = "tokens_net"
    /\ \A i \in DOMAIN fetched_tokens : IsSome(fetched_tokens[i])
    /\ LET services == select_services(params.options, available_dapps_names)
       IN  /\ services_to_run' = services
           /\ IF services = <<>>
              THEN /\ quote_result' = Ok(Failure("No valid quotes found."))
                   /\ pc' = "returned"
                   /\ UNCHANGED << futures, elapsed, dispatched_at, outbound >>
              ELSE /\ futures' = [ i \in DOMAIN services |-> Pending ]
                   /\ elapsed' = {}
                   /\ dispatched_at' = now
                   /\ outbound' = outbound \cup {"provider"}
                   /\ pc' = "join"
                   /\ UNCHANGED quote_result
    /\ UNCHANGED << formatter, filtering, building, saving >>
    /\ UNCHANGED << now, tokens, quote_cache, evictions, served, params, stored,
                    attempts, gas_prices, available_dapps_names, fetched_tokens,
                    response >>

\* JSON null
null == EmptyObject

\* the output amounts a provider may quote
Amounts == { 999, 1000 }

\* the CanonicalQuote a quote builder returns for output amount `amount`
CanonicalQuote(tool, amount) ==
    [ tool |-> tool, fromChainId |-> params.fromChainId, toChainId |-> params.toChainId,
      fromAmount |-> <<1>>, toAmount |-> to_string(amount),
      fromToken |-> params.fromTokenAddress, toToken |-> params.toTokenAddress,
      transaction |-> "transaction" ]

\* what service(params, state) may resolve to before the deadline
ServiceResults(tool) ==
    { Ok(CanonicalQuote(tool, amount)) : amount \in Amounts }
    \cup { Ok(null), Err("provider error") }

\* validate_response_format
validate_response_format(data) ==
    /\ "tool" \in DOMAIN data
    /\ "fromChainId" \in DOMAIN data
    /\ "fromAmount" \in DOMAIN data
    /\ "toAmount" \in DOMAIN data
    /\ "fromToken" \in DOMAIN data
    /\ "toToken" \in DOMAIN data
    /\ "transaction" \in DOMAIN data

\* a future that answers for a provider whose deadline elapsed
future_output_on_elapsed(name, timed) ==
    IF timed.kind = "ok"
    THEN IF timed.value.kind = "ok" /\ validate_response_format(timed.value.value)
         THEN Some([name |-> name, data |-> timed.value.value])
         ELSE None
    ELSE Some([name |-> name, data |-> CanonicalQuote(name, 999)])

\* lines 114-136: what the future of `name` produces from the timeout's result
future_output(name, timed) ==
    IF timed.kind = "ok"
    THEN IF timed.value.kind = "ok"
         THEN IF validate_response_format(timed.value.value)
              THEN Some([name |-> name, data |-> timed.value.value])
              ELSE None
         ELSE None
    ELSE None

\* the service of slot i completes before its deadline
service_returns(i, result) ==
    /\ pc = "join"
    /\ futures[i].st = "pending"
    /\ now < dispatched_at + PROVIDER_TIMEOUT_SECS
    /\ futures' = [futures EXCEPT ![i] = future_output(services_to_run[i], Ok(result))]
    /\ UNCHANGED elapsed
    /\ UNCHANGED << formatter, filtering, building, saving >>
    /\ UNCHANGED << now, tokens, quote_cache, evictions, served, pc, params, stored,
                    attempts, gas_prices, available_dapps_names, fetched_tokens,
                    services_to_run, dispatched_at, quote_result, response, outbound >>

\* the 30 s of slot i elapse first: timeout() yields Err(Elapsed)
service_times_out(i) ==
    /\ pc = "join"
    /\ futures[i].st = "pending"
    /\ now >= dispatched_at + PROVIDER_TIMEOUT_SECS
    /\ futures' = [futures EXCEPT ![i] = future_output(services_to_run[i], Err("elapsed"))]
    /\ elapsed' = elapsed \cup {i}
    /\ UNCHANGED << formatter, filtering, building, saving >>
    /\ UNCHANGED << now, tokens, quote_cache, evictions, served, pc, params, stored,
                    attempts, gas_prices, available_dapps_names, fetched_tokens,
                    services_to_run, dispatched_at, quote_result, response, outbound >>

\* the service of slot i panics (across.rs:278, 354-358; format_swap_details.rs:110):
\* the futures are polled inside the route_quote task, so the task unwinds
service_panics(i) ==
    /\ pc = "join"
    /\ futures[i].st = "pending"
    /\ now < dispatched_at + PROVIDER_TIMEOUT_SECS
    /\ quote_result' = Panicked
    /\ pc' = "returned"
    /\ UNCHANGED << formatter, filtering, building, saving >>
    /\ UNCHANGED << now, tokens, quote_cache, evictions, served, params, stored,
                    attempts, gas_prices, available_dapps_names, fetched_tokens,
                    services_to_run, dispatched_at, futures, elapsed, response, outbound >>

\* .into_iter().filter_map(|res| res).collect()
filter_map(slots) ==
    LET kept == SelectSeq(slots, IsSome)
    IN  [ i \in DOMAIN kept |-> kept[i].value ]

\* lines 155-164: enumerate, id = index + 1
enumerate_ids(results) ==
    [ i \in DOMAIN results |->
        [ id |-> i, name |-> results[i].name, data |-> results[i].data ] ]

\* a["data"]["toAmount"].as_str().unwrap_or("0")
amount_str(entry) ==
    IF "toAmount" \in DOMAIN entry.data THEN entry.data.toAmount ELSE <<0>>

\* a comparator that also puts a before b when the two amounts are equal
cmp_less_or_equal(a, b) == ~StrLess(amount_str(a), amount_str(b))

\* the comparator of sort_by, b_amount.cmp(a_amount): Less, "a goes before b"
cmp_less(a, b) == StrLess(amount_str(b), amount_str(a))

\* where a stable sort puts x in a sorted prefix: before the first it goes before
insert_at(sorted, x) ==
    IF \E j \in DOMAIN sorted : cmp_less(x, sorted[j])
    THEN CHOOSE j \in DOMAIN sorted :
            /\ cmp_less(x, sorted[j])
            /\ \A k \in DOMAIN sorted : k < j => ~cmp_less(x, sorted[k])
    ELSE Len(sorted) + 1

\* Vec::sort_by: stable, by the comparator above
RECURSIVE sort_by(_)
sort_by(entries) ==
    IF entries = <<>>
    THEN <<>>
    ELSE LET sorted == sort_by(SubSeq(entries, 1, Len(entries) - 1))
             x == entries[Len(entries)]
             j == insert_at(sorted, x)
         IN  SubSeq(sorted, 1, j - 1) \o <<x>> \o SubSeq(sorted, j, Len(sorted))

\* json!({"success": true, "data": sorted_results})
Success(data) == [success |-> TRUE, data |-> data]

\* a join that answers success with an empty list when nothing was collected
route_quote_join_empty_success ==
    /\ pc = "join"
    /\ \A i \in DOMAIN futures : futures[i].st # "pending"
    /\ quote_result' = Ok(Success(sort_by(enumerate_ids(filter_map(futures)))))
    /\ pc' = "returned"
    /\ UNCHANGED << formatter, filtering, building, saving >>
    /\ UNCHANGED << now, tokens, quote_cache, evictions, served, params, stored,
                    attempts, gas_prices, available_dapps_names, fetched_tokens,
                    services_to_run, dispatched_at, futures, elapsed, response, outbound >>

\* lines 141-175: join_all has every output; collect, number, sort, answer
route_quote_join ==
    /\ pc = "join"
    /\ \A i \in DOMAIN futures : futures[i].st # "pending"
    /\ LET results == filter_map(futures)
       IN  quote_result' =
               IF results = <<>>
               THEN Ok(Failure("No valid quotes found."))
               ELSE Ok(Success(sort_by(enumerate_ids(results))))
    /\ pc' = "returned"
    /\ UNCHANGED << formatter, filtering, building, saving >>
    /\ UNCHANGED << now, tokens, quote_cache, evictions, served, params, stored,
                    attempts, gas_prices, available_dapps_names, fetched_tokens,
                    services_to_run, dispatched_at, futures, elapsed, response, outbound >>

(***************************************************************************)
(* process_quote and the handler's answer                                  *)
(***************************************************************************)
\* Uuid::new_v4(): a value never produced before
uuids == << "uuid-1", "uuid-2", "uuid-3", "uuid-4" >>
new_v4 == uuids[Cardinality(stored) + 1]

\* DashMap::entry(key).or_insert(value)
or_insert(map, key, value) ==
    IF key \in DOMAIN map
    THEN map
    ELSE [ k \in DOMAIN map \cup {key} |-> IF k = key THEN value ELSE map[k] ]

\* DashMap::remove(key)
remove(map, key) == [ k \in DOMAIN map \ {key} |-> map[k] ]

\* an eviction task that sleeps the providers' 30 s instead of the 600 s
wake_time_short(at) == at + PROVIDER_TIMEOUT_SECS

\* when the eviction task spawned at `at` wakes: sleep(Duration::from_secs(600))
wake_time(at) == at + RETENTION_SECS

\* lines 41-45: the value process_quote returns for a stored response
quote_service_result(request_id, resp) ==
    [ requestId |-> request_id,
      success |-> resp.success,
      data |-> IF "data" \in DOMAIN resp THEN resp.data ELSE <<>> ]

\* handle_quote_request lines 108-120: Json(result), or the server-error body
handler_response(outcome) ==
    IF outcome.kind = "ok"
    THEN outcome.value
    ELSE [ success |-> FALSE, message |-> <<"Server error", outcome.error>> ]

\* process_quote from the end of the spawned task on, and the handler's answer
process_quote ==
    /\ pc = "returned"
    /\ IF quote_result.kind = "ok"
       THEN LET request_id == new_v4
                resp == quote_result.value
            IN  /\ tokens' = or_insert(tokens, request_id, resp)
                /\ quote_cache' = or_insert(quote_cache, request_id, resp)
                /\ evictions' = evictions \cup {[id |-> request_id, wake |-> wake_time(now)]}
                /\ stored' = stored \cup {[id |-> request_id, at |-> now, envelope |-> resp]}
                /\ response' = handler_response(Ok(quote_service_result(request_id, resp)))
       ELSE /\ response' =
                  IF quote_result.kind = "panic"
                  THEN handler_response(Err(<<"Quote task panicked">>))
                  ELSE handler_response(Err(<<"Quote service failed", quote_result.error>>))
            /\ UNCHANGED << tokens, quote_cache, evictions, stored >>
    /\ pc' = "answered"
    /\ UNCHANGED << formatter, filtering, building, saving >>
    /\ UNCHANGED << now, served, params, attempts, gas_prices, available_dapps_names,
                    fetched_tokens, services_to_run, dispatched_at, futures, elapsed,
                    quote_result, outbound >>

\* the handler has answered; the request's task-local values are dropped
handle_quote_request_done ==
    /\ pc = "answered"
    /\ pc' = "idle"
    /\ params' = NoParams
    /\ attempts' = 0
    /\ gas_prices' = NoGas
    /\ available_dapps_names' = <<>>
    /\ fetched_tokens' = <<>>
    /\ services_to_run' = <<>>
    /\ dispatched_at' = 0
    /\ futures' = <<>>
    /\ elapsed' = {}
    /\ quote_result' = Nothing
    /\ response' = Nothing
    /\ outbound' = {}
    /\ UNCHANGED << formatter, filtering, building, saving >>
    /\ UNCHANGED << now, tokens, quote_cache, evictions, served, stored >>

\* lines 35-39: an eviction task wakes and removes its id from both maps
evict(task) ==
    /\ task \in evictions
    /\ now >= task.wake
    /\ tokens' = remove(tokens, task.id)
    /\ quote_cache' = remove(quote_cache, task.id)
    /\ evictions' = evictions \ {task}
    /\ UNCHANGED << formatter, filtering, building, saving >>
    /\ UNCHANGED << now, served, pc, params, stored, locals, quote_result, response,
                    outbound >>

(***************************************************************************)
(* reload_tokens and the clock                                             *)
(***************************************************************************)
\* reload_tokens: "tokens" is replaced by the parsed tokens.json. Taken between
\* requests: a request reads "tokens" once, in the cache pass, so a reload during
\* a request acts as one just before it or just after it
reload_tokens ==
    /\ pc = "idle"
    /\ tokens' = [tokens EXCEPT !["tokens"] = [shape |-> "file", entries |-> tokens_file]]
    /\ UNCHANGED << formatter, filtering, building, saving >>
    /\ UNCHANGED << now, quote_cache, evictions, served, pc, params, stored, locals,
                    quote_result, response, outbound >>

\* the instants at which a sleeping timer fires
deadlines ==
    { task.wake : task \in evictions }
    \cup IF pc = "join" /\ \E i \in DOMAIN futures : futures[i].st = "pending"
         THEN { dispatched_at + PROVIDER_TIMEOUT_SECS }
         ELSE {}

\* time passes, up to the next timer and never past one: while the providers are
\* awaited, and between requests once an envelope has been stored (until then
\* nothing depends on the clock); the other steps of a request take no time
Tick(d) ==
    /\ pc = "join" \/ (pc = "idle" /\ stored # {})
    /\ d > 0
    /\ \/ now + d <= MaxTime
       \/ pc = "join" /\ now + d <= dispatched_at + PROVIDER_TIMEOUT_SECS
    /\ \A deadline \in deadlines : now + d <= deadline
    /\ now' = now + d
    /\ UNCHANGED << formatter, filtering, building, saving >>
    /\ UNCHANGED << tokens, quote_cache, evictions, served, pc, params, stored, locals,
                    quote_result, response, outbound >>

\* the steps the clock may take from here
Steps == { TickSecs } \cup { deadline - now : deadline \in deadlines }

Next ==
    \/ \E p \in Requests : Request(p)
    \/ fetch_gas_price_no_provider
    \/ \E ok \in BOOLEAN : fetch_gas_price_attempt(ok)
    \/ route_quote_filter
    \/ fetch_token_details_cache
    \/ fetch_token_no_provider
    \/ \E ok \in BOOLEAN : fetch_token_from_network(ok)
    \/ route_quote_dispatch
    \/ \E i \in DOMAIN futures : \E result \in ServiceResults(services_to_run[i]) :
           service_returns(i, result)
    \/ \E i \in DOMAIN futures : service_times_out(i)
    \/ \E i \in DOMAIN futures : service_panics(i)
    \/ route_quote_join
    \/ process_quote
    \/ handle_quote_request_done
    \/ \E task \in evictions : evict(task)
    \/ reload_tokens
    \/ \E d \in Steps : Tick(d)

Spec == Init /\ [][Next]_vars

\* the timers fire, the runtime polls what is ready, and the clock keeps running
SpecFair ==
    /\ Spec
    /\ WF_vars(\E d \in Steps : Tick(d))
    /\ WF_vars(\E i \in DOMAIN futures : service_times_out(i))
    /\ WF_vars(route_quote_join)
    /\ WF_vars(process_quote)
    /\ WF_vars(handle_quote_request_done)
    /\ WF_vars(\E task \in evictions : evict(task))

(***************************************************************************)
(* What the claims speak of                                                *)
(***************************************************************************)
\* the eligible-provider set of the request being served
eligible == filter_dapps(params.fromTokenAddress, params.fromChainId, params.toChainId)

\* route_quote returned an envelope / a failure envelope / a success envelope
returned_envelope == pc = "returned" /\ quote_result.kind = "ok"
returned_failure == returned_envelope /\ ~quote_result.value.success
returned_success == returned_envelope /\ quote_result.value.success

\* the slots whose provider returned a valid quote before its deadline
valid_slots == { i \in DOMAIN futures : futures[i].st = "some" }

\* the quote of slot i is an entry of data
appears_in(i, data) ==
    \E k \in DOMAIN data :
        /\ data[k].name = services_to_run[i]
        /\ data[k].data = futures[i].value.data

\* C1: for every request whose eligible-provider set (the filter_dapps result) is
\* empty, the aggregation answers success=false and has made no outbound HTTP/RPC
\* call: no gas-price call, no token-metadata call, no provider call.
C1_NoCallWhenNoneEligible ==
    (pc = "returned" /\ eligible = <<>>) =>
        /\ returned_failure
        /\ outbound = {}

\* C1's case: a request with no eligible provider has been answered by route_quote
C1_NoneEligibleReturned ==
    /\ pc = "returned"
    /\ eligible = <<>>
    /\ quote_result = Ok(Failure("No dApps available"))

\* C2: when an aggregation fails, the response process_quote hands back is
\* {success:false, message}: it has a message and no requestId, no identifier was
\* generated for it and the correlator map holds no entry for a failed aggregation.
C2_FailureHasMessageAndNoId ==
    (pc = "answered" /\ quote_result.kind = "ok" /\ ~quote_result.value.success) =>
        /\ DOMAIN response = {"success", "message"}
        /\ response.success = FALSE
        /\ \A id \in DOMAIN quote_cache : quote_cache[id].success

\* C2's case: process_quote has answered an aggregation that failed
C2_FailureAnswered ==
    /\ pc = "answered"
    /\ quote_result = Ok(Failure("No valid quotes found."))

\* C3: in every success envelope route_quote produces, the entry at rank position
\* k (1-based) has id k.
C3_IdEqualsRank ==
    returned_success =>
        \A k \in DOMAIN quote_result.value.data : quote_result.value.data[k].id = k

\* C3's case: a success envelope with two ranked entries
C3_TwoRanked ==
    /\ returned_success
    /\ Len(quote_result.value.data) = 2

\* consecutive entries a, b of data have a.toAmount >= b.toAmount as strings
sorted_descending(data) ==
    \A k \in DOMAIN data :
        k < Len(data) => ~StrLess(data[k].data.toAmount, data[k + 1].data.toAmount)

\* the ids of the N entries are exactly 1..N, each used once
ids_contiguous(data) ==
    /\ { data[k].id : k \in DOMAIN data } = 1..Len(data)
    /\ \A j, k \in DOMAIN data : data[j].id = data[k].id => j = k

\* C4: for every request with at least one eligible provider and at least one
\* provider returning a valid quote within its deadline, route_quote returns
\* success=true, data is in descending order of toAmount compared as strings, and
\* the ids of the N entries are exactly 1..N, each used once.
C4_SuccessSortedContiguous ==
    (pc = "returned" /\ valid_slots # {}) =>
        /\ returned_success
        /\ sorted_descending(quote_result.value.data)
        /\ ids_contiguous(quote_result.value.data)

\* C4's case: the task of a request that got a valid quote has ended
C4_ValidQuoteAndEnded ==
    /\ pc = "returned"
    /\ Cardinality(valid_slots) = 2

\* what C4 says, for the requests whose join completed: holds in every state
RankedWhenJoined ==
    (returned_envelope /\ valid_slots # {}) =>
        /\ quote_result.value.success
        /\ sorted_descending(quote_result.value.data)
        /\ ids_contiguous(quote_result.value.data)
        /\ Len(quote_result.value.data) = Cardinality(valid_slots)

\* C5: when two providers return valid quotes with toAmount "999" and "1000", the
\* success envelope ranks the "1000" quote first and gives it id 1.
C5_LargerAmountFirst ==
    ( /\ returned_success
      /\ Cardinality(valid_slots) = 2
      /\ { futures[i].value.data.toAmount : i \in valid_slots }
             = { to_string(999), to_string(1000) } ) =>
        /\ quote_result.value.data[1].data.toAmount = to_string(1000)
        /\ quote_result.value.data[1].id = 1

\* C5's case: the two providers quoted "999" and "1000" and the envelope is built
C5_BothAmountsQuoted ==
    /\ returned_success
    /\ { futures[i].value.data.toAmount : i \in valid_slots }
           = { to_string(999), to_string(1000) }

\* C6: after process_quote stores an envelope at time t, its requestId maps to that
\* same envelope, unchanged, at every time before t + 600 s, whatever other stores
\* and evictions happen in between, and to nothing at every time after t + 600 s;
\* an entry leaves the map only by the step of its own eviction task.
C6_RetainedThenEvicted ==
    /\ [](\A e \in stored :
            /\ now < e.at + RETENTION_SECS =>
                  /\ e.id \in DOMAIN quote_cache /\ quote_cache[e.id] = e.envelope
                  /\ e.id \in DOMAIN tokens /\ tokens[e.id] = e.envelope
            /\ now > e.at + RETENTION_SECS =>
                  /\ e.id \notin DOMAIN quote_cache
                  /\ e.id \notin DOMAIN tokens)
    /\ [][\A id \in DOMAIN quote_cache :
            id \notin DOMAIN quote_cache' =>
                \E task \in evictions : task.id = id /\ evict(task)]_vars
    /\ [][\A task \in evictions : task \in evictions' \/ evict(task)]_vars

\* C6's case: an envelope has outlived its 600 s and is gone, while another one,
\* stored during the first one's lifetime, is still in the map
C6_OneGoneOneKept ==
    \E e1, e2 \in stored :
        /\ e1.envelope.success
        /\ now > e1.at + RETENTION_SECS
        /\ e1.id \notin DOMAIN quote_cache
        /\ e2.at > e1.at
        /\ e2.at < e1.at + RETENTION_SECS
        /\ e2.id \in DOMAIN quote_cache

\* C7: a provider whose call has not completed 30 seconds after dispatch is left
\* out of data, and the aggregation returns success=true with the quote of every
\* other provider that returned a valid quote within its deadline.
C7_TimedOutExcludedOthersKept ==
    (pc = "returned" /\ elapsed # {}) =>
        /\ quote_result.kind = "ok"
        /\ "data" \in DOMAIN quote_result.value =>
              \A i \in elapsed :
                  /\ futures[i] = None
                  /\ (\A j \in DOMAIN services_to_run :
                         j # i => services_to_run[j] # services_to_run[i]) =>
                        \A k \in DOMAIN quote_result.value.data :
                            quote_result.value.data[k].name # services_to_run[i]
        /\ valid_slots \ elapsed # {} =>
              /\ quote_result.value.success
              /\ Len(quote_result.value.data) = Cardinality(valid_slots \ elapsed)
              /\ \A i \in valid_slots \ elapsed : appears_in(i, quote_result.value.data)

\* C7's case: one provider ran into its deadline, the other had quoted in time,
\* and route_quote has returned
C7_OneTimedOutOneQuoted ==
    /\ returned_success
    /\ elapsed # {}
    /\ valid_slots \ elapsed # {}

\* C8: a failure of one provider call is isolated to that provider: it never aborts
\* the aggregation, and every other provider that returned a valid quote before its
\* deadline appears in data.
C8_ProviderFailureIsolated ==
    (pc = "returned" /\ futures # <<>>) =>
        /\ quote_result.kind = "ok"
        /\ \A i \in valid_slots : appears_in(i, quote_result.value.data)

\* C8's case: a provider call failed after a sibling had returned a valid quote,
\* and the task has ended
C8_FailedBesideValid ==
    /\ pc = "returned"
    /\ valid_slots # {}
    /\ valid_slots # DOMAIN futures

\* C9: once route_quote has dispatched the providers of a request it eventually
\* returns an envelope for that request.
C9_DispatchLeadsToEnvelope ==
    \A n \in 1..MaxRequests :
        (pc = "join" /\ served = n) ~> (returned_envelope /\ served = n)

\* C9's case: the providers of a request have been dispatched and one is pending
C9_Dispatched ==
    /\ pc = "join"
    /\ \E i \in DOMAIN futures : futures[i].st = "pending"

\* what C9 says about the join itself: whatever the providers do, the task of a
\* dispatched request comes to its end
DispatchLeadsToEnd ==
    \A n \in 1..MaxRequests :
        (pc = "join" /\ served = n) ~> (pc = "returned" /\ served = n)

(***************************************************************************)
(* U256, u128 and f64 as format_swap_details computes with them            *)
(***************************************************************************)
\* an unsigned integer of any width: its limbs, least significant first, with no
\* leading zero limb; zero is the empty sequence. A limb is narrow enough for the
\* product of two limbs to stay an integer of the checker
LimbBits == 12
LimbBase == 2 ^ LimbBits

RECURSIVE BNorm(_)
BNorm(a) ==
    IF a = <<>> THEN <<>>
    ELSE IF a[Len(a)] = 0 THEN BNorm(SubSeq(a, 1, Len(a) - 1))
    ELSE a

RECURSIVE BFromSmall(_)
BFromSmall(n) ==
    IF n = 0 THEN <<>> ELSE <<n % LimbBase>> \o BFromSmall(n \div LimbBase)

RECURSIVE BAddC(_, _, _)
BAddC(a, b, c) ==
    IF a = <<>> /\ b = <<>>
    THEN IF c = 0 THEN <<>> ELSE <<c>>
    ELSE LET x == IF a = <<>> THEN 0 ELSE Head(a)
             y == IF b = <<>> THEN 0 ELSE Head(b)
             t == x + y + c
         IN  <<t % LimbBase>>
             \o BAddC(IF a = <<>> THEN <<>> ELSE Tail(a),
                      IF b = <<>> THEN <<>> ELSE Tail(b), t \div LimbBase)

BAdd(a, b) == BAddC(a, b, 0)

\* a - b for a >= b
RECURSIVE BSubB(_, _, _)
BSubB(a, b, borrow) ==
    IF a = <<>> THEN <<>>
    ELSE LET y == IF b = <<>> THEN 0 ELSE Head(b)
             t == Head(a) - y - borrow
         IN  <<IF t < 0 THEN t + LimbBase ELSE t>>
             \o BSubB(Tail(a), IF b = <<>> THEN <<>> ELSE Tail(b), IF t < 0 THEN 1 ELSE 0)

BSub(a, b) == BNorm(BSubB(a, b, 0))

RECURSIVE BLessSame(_, _)
BLessSame(a, b) ==
    IF a = <<>> THEN FALSE
    ELSE IF a[Len(a)] # b[Len(b)] THEN a[Len(a)] < b[Len(b)]
    ELSE BLessSame(SubSeq(a, 1, Len(a) - 1), SubSeq(b, 1, Len(b) - 1))

BLess(a, b) == IF Len(a) # Len(b) THEN Len(a) < Len(b) ELSE BLessSame(a, b)

\* a * m + c for 0 <= m, c <= LimbBase
RECURSIVE BMulSmallC(_, _, _)
BMulSmallC(a, m, c) ==
    IF a = <<>> THEN BFromSmall(c)
    ELSE LET t == Head(a) * m + c
         IN  <<t % LimbBase>> \o BMulSmallC(Tail(a), m, t \div LimbBase)

BMulSmall(a, m) == BNorm(BMulSmallC(a, m, 0))

\* quotient and remainder of a by 0 < m <= LimbBase
RECURSIVE BDivSmall(_, _)
BDivSmall(a, m) ==
    IF a = <<>> THEN [q |-> <<>>, r |-> 0]
    ELSE LET hi == BDivSmall(Tail(a), m)
             cur == hi.r * LimbBase + Head(a)
         IN  [r |-> cur % m, q |-> BNorm(<<cur \div m>> \o hi.q)]

RECURSIVE BMul(_, _)
BMul(a, b) ==
    IF a = <<>> \/ b = <<>> THEN <<>>
    ELSE BNorm(BAdd(BMulSmall(b, Head(a)), <<0>> \o BMul(Tail(a), b)))

RECURSIVE SmallBitLen(_)
SmallBitLen(x) == IF x = 0 THEN 0 ELSE 1 + SmallBitLen(x \div 2)

BitLen(a) ==
    IF a = <<>> THEN 0 ELSE LimbBits * (Len(a) - 1) + SmallBitLen(a[Len(a)])

BShl(a, n) ==
    IF a = <<>> THEN <<>>
    ELSE [ i \in 1..(n \div LimbBits) |-> 0 ] \o BMulSmall(a, 2 ^ (n % LimbBits))

BShr(a, n) ==
    IF n \div LimbBits >= Len(a) THEN <<>>
    ELSE BDivSmall(SubSeq(a, n \div LimbBits + 1, Len(a)), 2 ^ (n % LimbBits)).q

BIsOdd(a) == a # <<>> /\ a[1] % 2 = 1

\* U256::from_dec_str / to_string over the characters of a string; a decimal digit
\* is the character 0..9, any other character is a number above 9
U256_BITS == 256
U128_BITS == 128

\* the value of a string of digits, three digits at a time
RECURSIVE BFromDigits(_)
BFromDigits(s) ==
    IF Len(s) <= 3 THEN BFromSmall(from_dec_str(s))
    ELSE LET hi == BFromDigits(SubSeq(s, 1, Len(s) - 3))
             lo == BFromSmall(from_dec_str(SubSeq(s, Len(s) - 2, Len(s))))
         IN  IF hi = <<>> THEN lo ELSE BAdd(BMulSmall(hi, 1000), lo)

\* Ok(value), or Err for a character that is no digit or a value that does not
\* fit 256 bits
U256_from_dec_str(s) ==
    IF \E i \in DOMAIN s : s[i] > 9
    THEN Err("invalid")
    ELSE LET v == BFromDigits(s)
         IN  IF BitLen(v) > U256_BITS THEN Err("overflow") ELSE Ok(v)

\* the digits of a value, three digits at a time
RECURSIVE BToDigits(_)
BToDigits(a) ==
    LET d == BDivSmall(a, 1000)
    IN  IF d.q = <<>> THEN to_string(d.r)
        ELSE BToDigits(d.q) \o << d.r \div 100, (d.r \div 10) % 10, d.r % 10 >>

U256_to_string(a) == BToDigits(a)

\* an f64 that is not NaN or infinite: (-1)^neg * m * 2^e with m = 0 or
\* 2^52 <= m < 2^53 (the exponents that occur stay far from the subnormals)
MANTISSA_DIGITS == 53

\* the f64 nearest to M * 2^E, ties to the even mantissa
FRound(neg, M, E) ==
    IF M = <<>> THEN [neg |-> neg, m |-> <<>>, e |-> 0]
    ELSE IF BitLen(M) <= MANTISSA_DIGITS
    THEN [ neg |-> neg, m |-> BShl(M, MANTISSA_DIGITS - BitLen(M)),
           e |-> E - (MANTISSA_DIGITS - BitLen(M)) ]
    ELSE LET n == BitLen(M) - MANTISSA_DIGITS
             q == BShr(M, n)
             r == BSub(M, BShl(q, n))
             half == BShl(<<1>>, n - 1)
             up == BLess(half, r) \/ (r = half /\ BIsOdd(q))
             m1 == IF up THEN BAdd(q, <<1>>) ELSE q
         IN  IF BitLen(m1) > MANTISSA_DIGITS
             THEN [neg |-> neg, m |-> BShr(m1, 1), e |-> E + n + 1]
             ELSE [neg |-> neg, m |-> m1, e |-> E + n]

\* the f64 n * 2^e for a small integer n
F64(n, e) == FRound(FALSE, BFromSmall(n), e)

\* x as f64, for an unsigned integer x
as_f64(x) == FRound(FALSE, x, 0)

FIsZero(a) == a.m = <<>>

\* a / 100.0: 100 = 25 * 2^2; the quotient by 25 keeps 55 bits and a sticky bit
div_100(a) ==
    IF FIsZero(a) THEN a
    ELSE LET d == BDivSmall(BShl(a.m, 8), 25)
             sticky == IF d.r = 0 THEN <<>> ELSE <<1>>
         IN  FRound(a.neg, BAdd(BShl(d.q, 1), sticky), a.e - 2 - 8 - 1)

\* a - b
f64_sub(a, b) ==
    IF FIsZero(b) THEN a
    ELSE IF FIsZero(a) THEN [b EXCEPT !.neg = ~b.neg]
    ELSE LET emin == IF a.e < b.e THEN a.e ELSE b.e
             A == BShl(a.m, a.e - emin)
             B == BShl(b.m, b.e - emin)
         IN  IF a.neg # b.neg THEN FRound(a.neg, BAdd(A, B), emin)
             ELSE IF BLess(A, B) THEN FRound(~a.neg, BSub(B, A), emin)
             ELSE FRound(A # B /\ a.neg, BSub(A, B), emin)

\* a * b
f64_mul(a, b) ==
    IF FIsZero(a) \/ FIsZero(b) THEN [neg |-> a.neg # b.neg, m |-> <<>>, e |-> 0]
    ELSE FRound(a.neg # b.neg, BMul(a.m, b.m), a.e + b.e)

\* a.floor()
floor(a) ==
    IF FIsZero(a) \/ a.e >= 0 THEN a
    ELSE LET q == BShr(a.m, 0 - a.e)
             exact == BShl(q, 0 - a.e) = a.m
         IN  IF a.neg /\ ~exact THEN FRound(TRUE, BAdd(q, <<1>>), 0)
             ELSE FRound(a.neg, q, 0)

\* a as u128: toward zero, saturating at 0 and at u128::MAX
as_u128_saturating(a) ==
    IF FIsZero(a) \/ a.neg THEN <<>>
    ELSE IF a.e < 0 THEN BShr(a.m, 0 - a.e)
    ELSE IF BitLen(a.m) + a.e > U128_BITS THEN BSub(BShl(<<1>>, U128_BITS), <<1>>)
    ELSE BShl(a.m, a.e)

(***************************************************************************)
(* format_swap_details                                                     *)
(***************************************************************************)
JBool(b) == [bool |-> b]
IsBool(v) == "bool" \in DOMAIN v

\* value[key]: Null for a key the value does not hold
index(value, key) == IF key \in DOMAIN value THEN value[key] ELSE null

Value_as_f64(v) == IF IsNum(v) THEN Some(v.num) ELSE None
Value_as_str(v) == IF IsStr(v) THEN Some(v.str) ELSE None
Value_as_bool(v) == IF IsBool(v) THEN Some(v.bool) ELSE None

unwrap_or(o, default) == IF IsSome(o) THEN o.value ELSE default

\* Result::unwrap_or_default for a U256
unwrap_or_default(r) == IF r.kind = "ok" THEN r.value ELSE <<>>

\* the string "none", by its bytes
none == << 110, 111, 110, 101 >>

\* U256::as_u128: panics for a value of more than 128 bits
as_u128(x) == IF BitLen(x) > U128_BITS THEN Panicked ELSE Ok(x)

\* lines 87-148: what a call returns for the amount a provider quoted: Ok(null)
\* without a gas estimate, a panic of as_u128, else the quote with its amounts
\* (the call's amount, gas and gas price are such that lines 98-112 pass)
format_swap_details(to_amount, options, to_token_details, needs_gas_estimate, estimated_gas, dapp_options) ==
    IF needs_gas_estimate /\ ~IsSome(estimated_gas) THEN Ok(null)
    ELSE
    LET slippage == div_100(unwrap_or(Value_as_f64(index(options, "slippage")), F64(1, 0)))
        to_amount_value ==
            unwrap_or_default(U256_from_dec_str(unwrap_or(Value_as_str(to_amount), <<0>>)))
        no_slippage ==
            /\ IsSome(dapp_options)
            /\ unwrap_or(Value_as_bool(index(dapp_options.value, "noSlippage")), FALSE)
        to_amount_min ==
            IF no_slippage THEN Ok(to_amount_value)
            ELSE IF Value_as_str(to_amount) # Some(none)
            THEN IF as_u128(to_amount_value).kind = "panic" THEN Panicked
                 ELSE Ok(as_u128_saturating(floor(
                         f64_mul(as_f64(as_u128(to_amount_value).value),
                                 f64_sub(F64(1, 0), slippage)))))
            ELSE Ok(to_amount_value)
        to_amount_usd ==
            IF IsSome(Value_as_f64(index(to_token_details, "priceUSD")))
            THEN as_u128(to_amount_value)
            ELSE Ok(none)
    IN  IF to_amount_min.kind = "panic" \/ to_amount_usd.kind = "panic" THEN Panicked
        ELSE Ok([ toAmount |-> U256_to_string(to_amount_value),
                  toAmountMin |-> U256_to_string(to_amount_min.value),
                  options |-> options ])

\* the amounts a provider may quote to the formatter
ToAmounts ==
    {
      JStr(<< 0 >>),   \* 0
      JStr(<< 1 >>),   \* 1
      JStr(<< 9, 9 >>),   \* 99
      JStr(<< 1, 0, 0 >>),   \* 100
      JStr(<< 2, 5, 0, 0, 0, 0, 0, 0, 0, 0 >>),   \* 2500000000
      JStr(<< 9, 0, 0, 7, 1, 9, 9, 2, 5, 4, 7, 4, 0, 9, 9, 2 >>),   \* 2^53
      JStr(<< 9, 0, 0, 7, 1, 9, 9, 2, 5, 4, 7, 4, 0, 9, 9, 3 >>),   \* 2^53 + 1
      JStr(<< 9, 0, 0, 7, 1, 9, 9, 2, 5, 4, 7, 4, 0, 9, 9, 5 >>),   \* 2^53 + 3
      JStr(<< 1, 0, 0, 0, 0, 0, 0, 0, 0, 0, 0, 0, 0, 0, 0, 0, 0, 0, 1 >>),   \* 10^18 + 1
      JStr(<< 1, 0, 0, 0, 0, 0, 0, 0, 0, 0, 0, 0, 0, 0, 0, 0, 0, 0, 0, 0, 0, 0, 0, 0, 0 >>),   \* 10^24
      JStr(<< 3, 4, 0, 2, 8, 2, 3, 6, 6, 9, 2, 0, 9, 3, 8, 4, 6, 3, 4, 6, 3, 3, 7, 4, 6, 0, 7, 4, 3, 1, 7, 6, 8, 2, 1, 1, 4, 5, 5 >>),   \* 2^128 - 1
      JStr(<< 3, 4, 0, 2, 8, 2, 3, 6, 6, 9, 2, 0, 9, 3, 8, 4, 6, 3, 4, 6, 3, 3, 7, 4, 6, 0, 7, 4, 3, 1, 7, 6, 8, 2, 1, 1, 4, 5, 6 >>),   \* 2^128
      JStr(none),
      JStr(<< 49, 101, 57 >>),   \* "1e9": no decimal string
      JNum(25),                  \* a number, no string
      null }

\* params["options"]: the slippage in percent as the handler stored it
Slippages ==
    { EmptyObject,
      [slippage |-> JNum(F64(1, 0))],
      [slippage |-> JNum(F64(1, 0 - 1))],
      [slippage |-> JNum(F64(100, 0))],
      [slippage |-> JNum(F64(1, 0 - 60))],
      [slippage |-> JNum(F64(0, 0))],
      [slippage |-> JNum([F64(1, 0) EXCEPT !.neg = TRUE])],
      [slippage |-> JStr(<<5>>)] }

\* the dapp_options parameter
DappOptions ==
    { None, Some(EmptyObject), Some([noSlippage |-> JBool(TRUE)]),
      Some([noSlippage |-> JBool(FALSE)]) }

\* params["toTokenDetails"], by its price
ToTokenDetails == { EmptyObject, [priceUSD |-> JNum(F64(1, 0))] }

\* a quote builder calls format_swap_details with the amount its provider quoted
format_swap_details_called(to_amount, options, to_token_details, needs_gas_estimate, estimated_gas, dapp_options) ==
    /\ call = NoCall
    /\ call' = [ to_amount |-> to_amount, options |-> options,
                 to_token_details |-> to_token_details,
                 needs_gas_estimate |-> needs_gas_estimate,
                 estimated_gas |-> estimated_gas, dapp_options |-> dapp_options ]
    /\ UNCHANGED << formatted, server, filtering, building, saving >>

\* the call returns
format_swap_details_returns ==
    /\ call # NoCall
    /\ formatted = Nothing
    /\ formatted' = format_swap_details(call.to_amount, call.options,
                                        call.to_token_details, call.needs_gas_estimate,
                                        call.estimated_gas, call.dapp_options)
    /\ UNCHANGED << call, server, filtering, building, saving >>

NextFmt ==
    \/ \E to_amount \in ToAmounts, options \in Slippages,
          to_token_details \in ToTokenDetails, needs_gas_estimate \in BOOLEAN,
          estimated_gas \in { None, Some(<<2, 1, 0, 0, 0>>) },
          dapp_options \in DappOptions :
          format_swap_details_called(to_amount, options, to_token_details,
                                     needs_gas_estimate, estimated_gas, dapp_options)
    \/ format_swap_details_returns

SpecFmt == Init /\ [][NextFmt]_vars

(***************************************************************************)
(* Claim C10                                                               *)
(***************************************************************************)
\* format_swap_details has produced a CanonicalQuote
produced == formatted.kind = "ok" /\ formatted.value # null

\* a non-negative integer written as a decimal string
decimal_string(s) == s # <<>> /\ \A i \in DOMAIN s : s[i] \in 0..9

\* the noSlippage flag is present: dapp_options carries noSlippage: true
flag_present ==
    /\ IsSome(call.dapp_options)
    /\ Value_as_bool(index(call.dapp_options.value, "noSlippage")) = Some(TRUE)

\* the noSlippage flag is absent: no dapp_options, or none that names noSlippage
flag_absent ==
    ~IsSome(call.dapp_options) \/ "noSlippage" \notin DOMAIN call.dapp_options.value

\* the slippage of the request is greater than 0 (1 percent when it names none)
slippage_positive ==
    LET v == index(call.options, "slippage")
    IN  IF IsNum(v) THEN ~FIsZero(v.num) /\ ~v.num.neg
        ELSE IF IsStr(v) THEN from_dec_str(v.str) > 0
        ELSE TRUE

\* C10: every CanonicalQuote produced by format_swap_details has toAmountMin <=
\* toAmount when the slippage is greater than 0 and the noSlippage flag is absent,
\* and toAmountMin = toAmount when the flag is present; both are non-negative
\* integers written as decimal strings.
C10_MinAtMostAmount ==
    produced =>
        /\ decimal_string(formatted.value.toAmount)
        /\ decimal_string(formatted.value.toAmountMin)
        /\ flag_present => formatted.value.toAmountMin = formatted.value.toAmount
        /\ (slippage_positive /\ flag_absent) =>
              ~BLess(BFromDigits(formatted.value.toAmount),
                     BFromDigits(formatted.value.toAmountMin))

\* C10's case: a quote was produced for a positive slippage without the flag, and
\* the slippage took something off the amount
C10_SlippageApplied ==
    /\ produced
    /\ slippage_positive
    /\ flag_absent
    /\ BLess(BFromDigits(formatted.value.toAmountMin),
             BFromDigits(formatted.value.toAmount))

(***************************************************************************)
(* Claim C11                                                               *)
(***************************************************************************)
\* the call's options carry a slippage, as a number or as a string of digits
carries_slippage ==
    LET v == index(call.options, "slippage")
    IN  IsNum(v) \/ (IsStr(v) /\ \A i \in DOMAIN v.str : v.str[i] \in 0..9)

\* the slippage the request names, in percent
request_slippage ==
    LET v == index(call.options, "slippage")
    IN  IF IsNum(v) THEN v.num ELSE F64(from_dec_str(v.str), 0)

\* the call's toAmount is a decimal string
numeric_to_amount ==
    IsStr(call.to_amount) /\ decimal_string(call.to_amount.str)

\* floor(amount * (100 - s) / 100) in exact arithmetic, for s = m * 2^e <= 100
floor_after_slippage(amount, s) ==
    LET k == IF s.e < 0 THEN 0 - s.e ELSE 0
        sm == IF FIsZero(s) THEN <<>> ELSE IF s.e < 0 THEN s.m ELSE BShl(s.m, s.e)
        hundred == BShl(BFromSmall(100), k)
        factor == IF s.neg THEN BAdd(hundred, sm) ELSE BSub(hundred, sm)
    IN  BDivSmall(BShr(BMul(amount, factor), k), 100).q

\* C11: for a request whose options carry slippage s percent (a number or a numeric
\* string), with no noSlippage flag and a numeric toAmount, format_swap_details
\* yields toAmountMin = floor(toAmount * (100 - s) / 100) using that request's s.
C11_MinIsFloorOfRequestSlippage ==
    (produced /\ carries_slippage /\ flag_absent /\ numeric_to_amount) =>
        formatted.value.toAmountMin =
            U256_to_string(floor_after_slippage(BFromDigits(call.to_amount.str),
                                                request_slippage))

\* C11's case, the spec's scenario: toAmount 2500000000 at 1 percent gives 2475000000
C11_OnePercentOfScenario ==
    /\ produced
    /\ flag_absent
    /\ call.to_amount = JStr(<< 2, 5, 0, 0, 0, 0, 0, 0, 0, 0 >>)
    /\ index(call.options, "slippage") = JNum(F64(1, 0))
    /\ formatted.value.toAmountMin = << 2, 4, 7, 5, 0, 0, 0, 0, 0, 0 >>

token_unresolved ==
    /\ pc \in {"join", "returned", "answered"}
    /\ fetched_tokens # <<>>
    /\ \E i \in DOMAIN fetched_tokens : ~IsSome(fetched_tokens[i])

in_snapshot ==
    { i \in DOMAIN fetched_tokens :
        \E e \in tokens["tokens"].entries :
            /\ e[1] = tokens_with_chain_ids[i][2]
            /\ to_lowercase(e[2]) = normalize_token_address(tokens_with_chain_ids[i][1]) }

\* C14: calling fetch_token_details with an (address, chainId) that is in the
\* in-memory cache loaded from the static token snapshot issues no network call,
\* on the first call and on the next one, and returns the same TokenInfo each
\* time: the listed one.
C14_SnapshotHitNoNetwork ==
    \A i \in in_snapshot :
        /\ IsSome(fetched_tokens[i])
        /\ fetched_tokens[i].value.priceUSD
        /\ fetched_tokens[i].value.address = normalize_token_address(tokens_with_chain_ids[i][1])

\* C14's case: after a reload of the snapshot, a second request's tokens were
\* looked up, all three listed, and none needed the network
C14_SecondCallAllHits ==
    /\ served = 2
    /\ pc = "tokens_net"
    /\ tokens["tokens"].shape = "file"
    /\ in_snapshot = DOMAIN fetched_tokens
    /\ \A i \in DOMAIN fetched_tokens :
          IsSome(fetched_tokens[i]) /\ fetched_tokens[i].value.priceUSD
    /\ "token" \notin outbound

(***************************************************************************)
(* Claim C15                                                               *)
(***************************************************************************)
\* the spawned route_quote task ended in an Err or in a panic
task_failed == quote_result.kind \in {"err", "panic"}

\* the aggregation failed: the task failed, or route_quote returned a failure envelope
aggregation_failed ==
    task_failed \/ (quote_result.kind = "ok" /\ ~quote_result.value.success)

\* the handler's answer is {success: false, message}
answered_failure_with_message ==
    /\ DOMAIN response = {"success", "message"}
    /\ response.success = FALSE

\* C15: every failure during an aggregation, a panic inside route_quote or inside a
\* provider future included, is turned into a returned value: process_quote returns
\* Err and the handler answers {success:false, message}; the serving process keeps
\* running and takes the next request.
C15_EveryFailureAnswered ==
    /\ (pc = "answered" /\ aggregation_failed) => answered_failure_with_message
    /\ (pc = "returned" /\ aggregation_failed) => ENABLED process_quote
    /\ pc = "answered" => ENABLED handle_quote_request_done

\* the part of C15 about an Err and about a panic: both are answered with
\* {success:false, message} and the handler is free again afterwards
TaskFailureAnswered ==
    /\ (pc = "answered" /\ task_failed) => answered_failure_with_message
    /\ (pc = "returned" /\ task_failed) => ENABLED process_quote
    /\ pc = "answered" => ENABLED handle_quote_request_done

\* C15's case: the first request ended in a panic or an Err (nothing was stored),
\* the second one ended in a panic of a provider future and was answered
C15_PanicAnsweredAfterFailure ==
    /\ served = 2
    /\ stored = {}
    /\ pc = "answered"
    /\ quote_result.kind = "panic"
    /\ answered_failure_with_message

(***************************************************************************)
(* filter_dapps called on its own, over configurations of one provider     *)
(***************************************************************************)
\* a provider's configuration object: the keys given as Some(value), the others absent
Config(enabled, token_list, eth_address, from_chain_ids, to_chain_ids, bridge) ==
    LET fields == [ enabled |-> enabled, tokens |-> token_list, ethAddress |-> eth_address,
                    fromChainIds |-> from_chain_ids, toChainIds |-> to_chain_ids,
                    bridge |-> bridge ]
    IN  [ k \in { f \in DOMAIN fields : IsSome(fields[f]) } |-> fields[k].value ]

\* the values each key of dappConfig.json takes in the model
Flags == { None, Some(TRUE), Some(FALSE) }
TokenLists ==
    { None, Some(<<>>), Some(<<JStr("all")>>), Some(<<JStr(USDC)>>), Some(<<JStr(UNLISTED)>>) }
EthAddresses == { None, Some(ZERO_ADDRESS) }
FromChainLists ==
    { None, Some(<<JNum(1)>>), Some(<<JStr("zksync")>>), Some(<<JStr("nowhere")>>),
      Some(<<JStr("all")>>) }
ToChainLists ==
    { None, Some(<<JNum(1), JNum(324)>>), Some(<<JStr("ethereum")>>), Some(<<JStr("all")>>) }

\* the token addresses and chain ids a caller asks with
AskedTokens == { USDC, USDC_CHECKSUM, ZERO_ADDRESS, UNLISTED }
AskedChains == { 1, 10, 324 }

\* filter_dapps is called on a state whose dapp_config holds the one provider "dapp"
filter_dapps_called(config, token_address, from_chain_id, to_chain_id) ==
    /\ filter_call = NoCall
    /\ filter_call' = [ config |-> config, token_address |-> token_address,
                        from_chain_id |-> from_chain_id, to_chain_id |-> to_chain_id ]
    /\ UNCHANGED << filter_result, server, formatter, building, saving >>

\* the call returns the names that pass
filter_dapps_returns ==
    /\ filter_call # NoCall
    /\ filter_result = Nothing
    /\ filter_result' = Ok(filter_dapps_in([dapp |-> filter_call.config], <<"dapp">>,
                                           filter_call.token_address,
                                           filter_call.from_chain_id, filter_call.to_chain_id))
    /\ UNCHANGED << filter_call, server, formatter, building, saving >>

NextFilter ==
    \/ /\ filter_call = NoCall
       /\ \E enabled \in Flags, token_list \in TokenLists, eth_address \in EthAddresses,
             from_chain_ids \in FromChainLists, to_chain_ids \in ToChainLists, bridge \in Flags,
             token_address \in AskedTokens, from_chain_id \in AskedChains, to_chain_id \in AskedChains :
             filter_dapps_called(Config(enabled, token_list, eth_address, from_chain_ids,
                                        to_chain_ids, bridge),
                                 token_address, from_chain_id, to_chain_id)
    \/ filter_dapps_returns

SpecFilter == Init /\ [][NextFilter]_vars

\* filter_dapps has returned / and returned the provider
filtered == filter_result.kind = "ok"
returned_eligible == filtered /\ filter_result.value = <<"dapp">>

\* would filter_dapps return the provider, were its configuration this one
eligible_with(config) ==
    filter_dapps_in([dapp |-> config], <<"dapp">>, filter_call.token_address,
                    filter_call.from_chain_id, filter_call.to_chain_id) = <<"dapp">>

\* the configuration of the call with its bridge key set to TRUE
bridge_on ==
    [ k \in DOMAIN filter_call.config \cup {"bridge"} |->
        IF k = "bridge" THEN TRUE ELSE filter_call.config[k] ]

(***************************************************************************)
(* Claim C16                                                               *)
(***************************************************************************)
\* C16: filter_dapps applies the per-provider bridge tri-state: with bridge=true a
\* provider otherwise matching is eligible whether or not fromChainId equals
\* toChainId; with bridge=false it is eligible only when fromChainId == toChainId;
\* with bridge unset it behaves exactly as with bridge=true.
C16_BridgeTriState ==
    filtered =>
        LET config == filter_call.config
            same_chain == filter_call.from_chain_id = filter_call.to_chain_id
            accepts(key, chain_id) ==
                /\ key \in DOMAIN config
                /\ \/ JStr("all") \in Range(config[key])
                   \/ chain_id \in resolve_chain_ids(config[key])
            otherwise_matching ==
                /\ "enabled" \in DOMAIN config /\ config.enabled
                /\ supports_token(config, filter_call.token_address)
                /\ accepts("fromChainIds", filter_call.from_chain_id)
                /\ accepts("toChainIds", filter_call.to_chain_id)
        IN  /\ ("bridge" \in DOMAIN config /\ config.bridge = TRUE) =>
                  (returned_eligible <=> otherwise_matching)
            /\ ("bridge" \in DOMAIN config /\ config.bridge = FALSE) =>
                  (returned_eligible <=> (otherwise_matching /\ same_chain))
            /\ "bridge" \notin DOMAIN config =>
                  /\ returned_eligible <=> otherwise_matching
                  /\ returned_eligible <=> eligible_with(bridge_on)

\* C16's case: a provider without a bridge key, asked for two different chains,
\* was returned
C16_UnsetAcrossChains ==
    /\ returned_eligible
    /\ "bridge" \notin DOMAIN filter_call.config
    /\ filter_call.from_chain_id # filter_call.to_chain_id

(***************************************************************************)
(* Claim C17                                                               *)
(***************************************************************************)
\* the token list of the call's provider names the requested token, in some letter case
listed_in_other_case ==
    /\ "tokens" \in DOMAIN filter_call.config
    /\ \E token \in Range(filter_call.config.tokens) :
          /\ IsStr(token)
          /\ token.str # filter_call.token_address
          /\ to_lowercase(token.str) = to_lowercase(filter_call.token_address)

\* the provider's other criteria hold: it passes for the token as its list spells it
passes_as_listed ==
    \E token \in Range(filter_call.config.tokens) :
        /\ to_lowercase(token.str) = to_lowercase(filter_call.token_address)
        /\ dapp_passes(filter_call.config, token.str,
                       filter_call.from_chain_id, filter_call.to_chain_id)

\* C17: token matching in filter_dapps is case-insensitive: a provider whose token
\* list contains the requested token address written in a different letter case
\* (and whose other criteria hold) is returned as eligible.
C17_TokenMatchIgnoresCase ==
    (filtered /\ listed_in_other_case /\ passes_as_listed) => returned_eligible

\* C17's case: a provider listing USDC in lower case was asked for with the
\* checksummed spelling, its other criteria holding, and filter_dapps returned
C17_AskedInOtherCase ==
    /\ filtered
    /\ filter_call.token_address = USDC_CHECKSUM
    /\ listed_in_other_case /\ passes_as_listed

(***************************************************************************)
(* Claim C18                                                               *)
(***************************************************************************)
\* a chain list accepts a chain id: by the number, by a name of the rpc-config
\* name-to-id table, or by "all"
chain_accepted(chain_identifiers, chain_id) ==
    \E x \in Range(chain_identifiers) :
        \/ x = JNum(chain_id)
        \/ x = JStr("all")
        \/ IsStr(x) /\ <<x.str, chain_id>> \in create_chain_name_to_id_map

\* C18: filter_dapps returns exactly the providers for which all of these hold:
\* enabled is true (a missing or false flag excludes the provider); the token list
\* contains the token address or the wildcard "all", or the provider's ethAddress
\* alias equals the token; fromChainIds accepts fromChainId and toChainIds accepts
\* toChainId, each by numeric id, by a chain name resolved through the rpc-config
\* table (unknown names match nothing) or by "all"; and the bridge rule holds.
\* The call makes no network call and changes no state.
C18_ExactlyThePassingProviders ==
    filtered =>
        LET config == filter_call.config
            has(k) == k \in DOMAIN config
        IN  /\ returned_eligible <=>
                  /\ has("enabled") /\ config.enabled = TRUE
                  /\ \/ has("tokens") /\ JStr(filter_call.token_address) \in Range(config.tokens)
                     \/ has("tokens") /\ JStr("all") \in Range(config.tokens)
                     \/ has("ethAddress") /\ config.ethAddress = filter_call.token_address
                  /\ has("fromChainIds")
                  /\ chain_accepted(config.fromChainIds, filter_call.from_chain_id)
                  /\ has("toChainIds")
                  /\ chain_accepted(config.toChainIds, filter_call.to_chain_id)
                  /\ (has("bridge") /\ config.bridge = FALSE) =>
                         filter_call.from_chain_id = filter_call.to_chain_id
            /\ outbound = {} /\ tokens = [k \in {"tokens"} |-> [shape |-> "lookup", entries |-> tokens_file]]
            /\ quote_cache = EmptyObject

\* C18 without the ethAddress alias: the statement holds for every provider that
\* has no alias or whose token list is not empty
ExactlyThePassingProviders ==
    (filtered /\ ~("ethAddress" \in DOMAIN filter_call.config
                     /\ ("tokens" \notin DOMAIN filter_call.config
                            \/ filter_call.config.tokens = <<>>))) =>
        C18_ExactlyThePassingProviders

\* C18's case: a provider named by its zksync chain name, with a token list of its
\* own, was asked from chain 324 with its alias token and returned
C18_ByNameAndAlias ==
    /\ returned_eligible
    /\ filter_call.config.fromChainIds = <<JStr("zksync")>>
    /\ filter_call.config.tokens = <<JStr(USDC)>>
    /\ filter_call.token_address = ZERO_ADDRESS

(***************************************************************************)
(* Claim C19                                                               *)
(***************************************************************************)
\* every dispatched provider call has settled
all_settled == \A i \in DOMAIN futures : futures[i].st # "pending"

\* C19: route_quote produces its envelope only after every dispatched provider call
\* has settled (completed, failed or timed out): there is no return on first
\* success, and a valid quote that arrives before its own deadline is never left
\* out because another provider finished or failed earlier.
C19_EnvelopeAfterAllSettled ==
    /\ returned_envelope => all_settled
    /\ pc = "returned" =>
          \A i \in valid_slots :
              returned_success /\ appears_in(i, quote_result.value.data)

\* what C19 says, for the requests whose task did not panic: holds in every state
AllSettledWhenJoined ==
    /\ returned_envelope => all_settled
    /\ (pc = "returned" /\ quote_result.kind # "panic") =>
          \A i \in valid_slots :
              returned_success /\ appears_in(i, quote_result.value.data)

\* C19's case: of two providers one failed with an error, the other quoted after
\* time had passed and within its deadline, and the envelope holds that quote
C19_QuoteKeptBesideFailure ==
    /\ returned_success
    /\ Len(futures) = 2 /\ all_settled
    /\ Cardinality(valid_slots) = 1 /\ elapsed = {}
    /\ now > dispatched_at
    /\ Len(quote_result.value.data) = 1

(***************************************************************************)
(* Claim C20                                                               *)
(***************************************************************************)
\* route_quote has computed services_to_run for the request being served
selected ==
    /\ pc \in {"join", "returned", "answered"}
    /\ fetched_tokens # <<>>
    /\ \A i \in DOMAIN fetched_tokens : IsSome(fetched_tokens[i])

\* the caller's list, and the candidate set as the claim states it
callers_list ==
    IF "dapps" \in DOMAIN params.options THEN Range(params.options.dapps) ELSE {}
candidate_set ==
    IF callers_list # {} THEN callers_list \cap Range(eligible) ELSE Range(eligible)

\* the providers named in the ranked list of the envelope
names_in_data ==
    IF returned_success
    THEN { quote_result.value.data[k].name : k \in DOMAIN quote_result.value.data }
    ELSE {}

\* the builders invoked are those of `set`, one call each, and data names no other
invokes_exactly(set) ==
    /\ Range(services_to_run) = set
    /\ pc = "join" => DOMAIN futures = DOMAIN services_to_run
    /\ ("provider" \in outbound) = (set # {})
    /\ names_in_data \subseteq set

C21_DataFixedByOutcomes ==
    (returned_success /\ futures # <<>>) =>
        LET data == quote_result.value.data
        IN  /\ Len(data) = Cardinality(valid_slots)
            /\ \A i \in valid_slots :
                  \E k \in DOMAIN data :
                      /\ data[k].id = Cardinality({ j \in valid_slots : j <= i })
                      /\ data[k].name = services_to_run[i]
                      /\ data[k].data = futures[i].value.data
            /\ \A i, j \in valid_slots :
                  (i < j /\ ~StrLess(futures[i].value.data.toAmount,
                                     futures[j].value.data.toAmount)) =>
                      \E k, l \in DOMAIN data :
                          /\ k < l
                          /\ data[k].id = Cardinality({ h \in valid_slots : h <= i })
                          /\ data[l].id = Cardinality({ h \in valid_slots : h <= j })
            /\ \A i, j \in valid_slots :
                  StrLess(futures[i].value.data.toAmount, futures[j].value.data.toAmount) =>
                      \E k, l \in DOMAIN data :
                          /\ l < k
                          /\ data[k].id = Cardinality({ h \in valid_slots : h <= i })
                          /\ data[l].id = Cardinality({ h \in valid_slots : h <= j })

\* C21's case: two providers quoted the same amount, time passed while they were
\* awaited, and the envelope lists them in the order of their slots
C21_EqualAmountsInSlotOrder ==
    /\ returned_success
    /\ Cardinality(valid_slots) = 2
    /\ futures[1].value.data.toAmount = futures[2].value.data.toAmount
    /\ now > dispatched_at
    /\ quote_result.value.data[1].name = services_to_run[1]

(***************************************************************************)
(* Claim C22                                                               *)
(***************************************************************************)
\* the slots of the call whose (address, chain) save_token_to_new_tokens has recorded
in_new_tokens ==
    { i \in DOMAIN fetched_tokens :
        /\ "new_tokens" \in DOMAIN tokens
        /\ tokens_with_chain_ids[i][2] \in DOMAIN tokens["new_tokens"].chains
        /\ \E t \in Range(tokens["new_tokens"].chains[tokens_with_chain_ids[i][2]]) :
              t.address = normalize_token_address(tokens_with_chain_ids[i][1]) }

\* the cache pass of a fetch_token_details call is done and no lookup of the call
\* has gone to the network yet
cache_pass_done == pc = "tokens_net" /\ "token" \notin outbound

\* C22: after a token missing from the cache has been resolved from the network
\* once, it is written back to the in-memory cache, and a later fetch_token_details
\* call for the same (address, chainId) returns it from the cache without any
\* network call.
C22_ResolvedOnceThenCached ==
    cache_pass_done => \A i \in in_new_tokens : IsSome(fetched_tokens[i])

\* C22's case: a first request resolved on chain a token its cache pass had missed
\* and saved it, and the cache pass of a second request for the same token is done
C22_SecondLookupOfSavedToken ==
    /\ served = 2
    /\ cache_pass_done
    /\ tokens["tokens"].shape = "file"
    /\ params.toTokenAddress = WETH
    /\ 2 \in in_new_tokens

(***************************************************************************)
(* Claim C23                                                               *)
(***************************************************************************)
\* C23: fetch_gas_price makes at most 10 provider calls, never returns an error,
\* returns the first successful price, and returns the zero-value pair ("0", "0")
\* when all 10 attempts fail or when no endpoint exists for the chain; route_quote
\* then continues the aggregation with the zero price instead of failing the request.
C23_GasPriceNeverFails ==
    [][ pc = "gas" =>
          LET endpoints == get_random_rpc_proxy_provider(params.fromChainId)
          IN  /\ attempts < max_retries
              /\ pc' \in {"gas", "filter"}
              /\ quote_result' = Nothing
              /\ pc' = "gas" =>
                    /\ attempts' \in {attempts, attempts + 1}
                    /\ attempts' < max_retries
                    /\ gas_prices' = gas_prices
                    /\ attempts' = attempts + 1 => (endpoints # {} /\ "gas" \in outbound')
              /\ pc' = "filter" =>
                    /\ gas_prices' \in {ZeroGas, SomeGas}
                    /\ gas_prices' = SomeGas => (endpoints # {} /\ "gas" \in outbound')
                    /\ gas_prices' = ZeroGas =>
                          \/ endpoints = {} /\ outbound' = outbound
                          \/ endpoints # {} /\ attempts = max_retries - 1
                    /\ endpoints = {} => gas_prices' = ZeroGas ]_vars

\* C23's case: all ten calls failed, the aggregation went on with the zero pair
\* and ended with a success envelope
C23_ZeroPriceAndSuccess ==
    /\ returned_success
    /\ gas_prices = ZeroGas
    /\ "gas" \in outbound

(***************************************************************************)
(* One provider future on its own: the quote builder, the gas path of      *)
(* format_swap_details and the future's validation of what came back       *)
(***************************************************************************)
\* the string "quote", by its bytes
quote == << 113, 117, 111, 116, 101 >>

\* the transaction descriptor of a quote-only call (koi.rs 75-81), of a swap
\* (koi.rs 139-144), and of a swap whose target is no address (across.rs 113-119
\* with a spokePoolAddress of null)
PlaceholderTx == [ from |-> "0x1111", to |-> "0x2222", data |-> "quote", value |-> "quote" ]
SwapTx == [ from |-> "0x1111", to |-> "0x2222", data |-> "0xabcd", value |-> "0" ]
NoTargetTx == [ from |-> "0x1111", to |-> "", data |-> "0xabcd", value |-> "0" ]

\* transaction.as_object().unwrap().values().any(|v| v.as_str() == Some("quote"))
is_placeholder(transaction) == \E k \in DOMAIN transaction : transaction[k] = "quote"

\* line 69
needs_gas_estimate(gas_estimate, transaction) ==
    ~IsSome(gas_estimate) /\ ~is_placeholder(transaction)

\* a safety margin that rounds the half up
adjusted_gas_rounded_up(gas) == BDivSmall(BAdd(BMulSmall(gas, 3), BFromSmall(1)), 2).q

\* line 73: gas * 3 / 2 in U256
adjusted_gas(gas) == BDivSmall(BMulSmall(gas, 3), 2).q

\* line 84: gas_estimate.map(|g| U256::from_dec_str(g).unwrap_or_default())
supplied_gas(gas_estimate) ==
    IF IsSome(gas_estimate)
    THEN Some(unwrap_or_default(U256_from_dec_str(gas_estimate.value)))
    ELSE None

\* a / 10^k, and the same rounded to the nearest
RECURSIVE BDivPow10(_, _)
BDivPow10(a, k) == IF k = 0 THEN a ELSE BDivPow10(BDivSmall(a, 10).q, k - 1)

round_div_pow10(a, k) == BDivSmall(BAdd(BDivPow10(a, k - 1), BFromSmall(5)), 10).q

RECURSIVE pad_left(_, _)
pad_left(digits, width) ==
    IF Len(digits) >= width THEN digits ELSE pad_left(<<0>> \o digits, width)

\* format!("{:.N}", x) for x = units / 10^N: the digits with the point (byte 46)
format_fixed(units, decimals) ==
    LET digits == pad_left(BToDigits(units), decimals + 1)
    IN  SubSeq(digits, 1, Len(digits) - decimals) \o << 46 >>
        \o SubSeq(digits, Len(digits) - decimals + 1, Len(digits))

\* (gas * gas_price_wei).as_u128() as f64 / 1e18 in units of 10^-8 (the products
\* that occur are below 2^53 and whole multiples of 10^10 wei)
cost_units(gas, gas_price_wei) == round_div_pow10(BMul(gas, gas_price_wei), 10)

\* lines 105-107
swap_cost_eth(estimated_gas, gas_price_wei) ==
    IF IsSome(estimated_gas)
    THEN format_fixed(cost_units(estimated_gas.value, gas_price_wei), 8)
    ELSE none

\* lines 125-132, for a native token priced in whole dollars
swap_cost_usd(estimated_gas, gas_price_wei, native_token_details) ==
    IF swap_cost_eth(estimated_gas, gas_price_wei) # none
       /\ index(native_token_details, "priceUSD") # null
    THEN format_fixed(round_div_pow10(
             BMulSmall(cost_units(estimated_gas.value, gas_price_wei),
                       native_token_details.priceUSD.num), 5), 3)
    ELSE none

\* line 103
gas_estimated(estimated_gas) ==
    IF IsSome(estimated_gas) THEN U256_to_string(estimated_gas.value) ELSE << 0 >>

\* lines 134-181: the fields of the result that the gas estimate decides, with
\* the ones validate_response_format looks for
swap_details(c, estimated_gas) ==
    LET gas_price_wei == U256_from_dec_str(c.gas_data.wei).value
    IN  [ tool |-> c.tool, fromChainId |-> c.chain_id, toChainId |-> c.chain_id,
          fromAmount |-> << 1 >>, toAmount |-> << 1, 0, 0, 0 >>,
          fromToken |-> USDC, toToken |-> ZERO_ADDRESS,
          swapCostETH |-> swap_cost_eth(estimated_gas, gas_price_wei),
          swapCostUSD |-> swap_cost_usd(estimated_gas, gas_price_wei,
                                        c.native_token_details),
          transaction |-> [ to |-> c.transaction.to, from |-> c.transaction.from,
                            gasPrice |-> U256_to_string(gas_price_wei),
                            gas |-> gas_estimated(estimated_gas) ] ]

\* the gas_estimate argument: None (koi.rs:153), Some("quote") (koi.rs:89),
\* Some("0") (balancer.rs) and a limit the provider stated (bungee.rs, jumper.rs)
GasEstimates == { None, Some(quote), Some(<< 0 >>), Some(<< 2, 1, 0, 0, 0 >>) }

Transactions == { PlaceholderTx, SwapTx, NoTargetTx }

\* params["nativeTokenDetails"], by its price
NativeTokenDetails == { [ priceUSD |-> null ], [ priceUSD |-> JNum(2000) ] }

\* what provider.estimate_gas answers: a gas amount, or an error
GasAnswers == { Ok(0), Ok(21000), Ok(21001), Err("estimate_gas") }

\* a quote builder calls format_swap_details (koi.rs 82-93, 146-157)
quote_builder_called(gas_estimate, transaction, chain_id, gas_data, native_token_details) ==
    /\ build_call = NoCall
    /\ built = Nothing
    /\ build_call' = [ tool |-> "koi", gas_estimate |-> gas_estimate,
                       transaction |-> transaction, chain_id |-> chain_id,
                       gas_data |-> gas_data,
                       native_token_details |-> native_token_details,
                       estimation |-> Nothing ]
    /\ UNCHANGED << gas_calls, built, build_output, server, formatter, filtering, saving >>

\* lines 69-85 with needs_gas_estimate false: no estimation, the supplied estimate
format_swap_details_supplied ==
    /\ build_call # NoCall
    /\ built = Nothing
    /\ ~needs_gas_estimate(build_call.gas_estimate, build_call.transaction)
    /\ built' = Ok(swap_details(build_call, supplied_gas(build_call.gas_estimate)))
    /\ UNCHANGED << build_call, gas_calls, build_output, server, formatter, filtering, saving >>

\* estimate_gas_limit returns Err before it reaches a node: no endpoint for the
\* chain (line 18) or a field of the transaction that does not parse (lines 22-28);
\* format_swap_details then returns Ok(null) (lines 78-90)
estimate_gas_limit_fails ==
    /\ build_call # NoCall
    /\ built = Nothing
    /\ needs_gas_estimate(build_call.gas_estimate, build_call.transaction)
    /\ \/ get_random_rpc_proxy_provider(build_call.chain_id) = {}
       \/ build_call.transaction.to = ""
    /\ gas_calls' = [gas_calls EXCEPT !.estimate_gas_limit = @ + 1]
    /\ build_call' = [build_call EXCEPT !.estimation = Err("estimate_gas_limit")]
    /\ built' = Ok(null)
    /\ UNCHANGED << build_output, server, formatter, filtering, saving >>

\* estimate_gas_limit asks a node (line 35); on its answer format_swap_details goes
\* on with gas * 3 / 2 (lines 72-76), on its error it returns Ok(null) (77, 87-90)
estimate_gas(answer) ==
    /\ build_call # NoCall
    /\ built = Nothing
    /\ needs_gas_estimate(build_call.gas_estimate, build_call.transaction)
    /\ get_random_rpc_proxy_provider(build_call.chain_id) # {}
    /\ build_call.transaction.to # ""
    /\ gas_calls' = [ estimate_gas_limit |-> gas_calls.estimate_gas_limit + 1,
                      estimate_gas |-> gas_calls.estimate_gas + 1 ]
    /\ build_call' = [build_call EXCEPT !.estimation = answer]
    /\ built' = IF answer.kind = "ok"
                THEN Ok(swap_details(build_call,
                                     Some(adjusted_gas(BFromSmall(answer.value)))))
                ELSE Ok(null)
    /\ UNCHANGED << build_output, server, formatter, filtering, saving >>

\* the fields validate_response_format may or may not find in a builder's value
QuoteFields ==
    { "tool", "fromChainId", "toChainId", "fromAmount", "toAmount", "fromToken",
      "toToken", "transaction" }

\* a quote builder returns a value it put together itself (debridge.rs 73-76,
\* across.rs 304-307), with the fields `fields`
quote_builder_returns(fields) ==
    /\ build_call = NoCall
    /\ built = Nothing
    /\ built' = Ok([ k \in fields |-> k ])
    /\ UNCHANGED << build_call, gas_calls, build_output, server, formatter, filtering, saving >>

\* quote_router.rs 114-126: the future takes the builder's value
future_settles ==
    /\ built # Nothing
    /\ build_output = Nothing
    /\ build_output' = future_output("koi", Ok(built))
    /\ UNCHANGED << build_call, gas_calls, built, server, formatter, filtering, saving >>

NextBuild ==
    \/ /\ build_call = NoCall
       /\ built = Nothing
       /\ \E gas_estimate \in GasEstimates, transaction \in Transactions,
             chain_id \in { 1, 10 }, gas_data \in { ZeroGas, SomeGas },
             native_token_details \in NativeTokenDetails :
             quote_builder_called(gas_estimate, transaction, chain_id, gas_data,
                                  native_token_details)
    \/ format_swap_details_supplied
    \/ estimate_gas_limit_fails
    \/ \E answer \in GasAnswers : estimate_gas(answer)
    \/ /\ build_call = NoCall
       /\ built = Nothing
       /\ \E fields \in SUBSET QuoteFields : quote_builder_returns(fields)
    \/ future_settles

SpecBuild == Init /\ [][NextBuild]_vars

\* format_swap_details has returned to the builder that called it
formatter_returned == build_call # NoCall /\ built # Nothing

\* the call came without a gas estimate for a transaction that is no placeholder
estimate_needed ==
    /\ build_call.gas_estimate = None
    /\ \A k \in DOMAIN build_call.transaction : build_call.transaction[k] # "quote"

(***************************************************************************)
(* Claim C24                                                               *)
(***************************************************************************)
\* C24: When format_swap_details receives no gas estimate and the transaction is
\* not a placeholder, it makes exactly one gas estimation call; on success the
\* quote's gas is the estimate multiplied by 3/2 (integer division), and on
\* failure (no RPC endpoint, or the estimation call errors) no quote is produced,
\* the provider is absent from the ranked data and the estimation is not retried.
C24_OneEstimateThenMarginOrNothing ==
    (formatter_returned /\ estimate_needed) =>
        /\ gas_calls.estimate_gas_limit = 1
        /\ gas_calls.estimate_gas <= 1
        /\ build_call.estimation # Nothing
        /\ build_call.estimation.kind = "ok" =>
              /\ built.kind = "ok" /\ built.value # null
              /\ built.value.transaction.gas
                    = to_string((build_call.estimation.value * 3) \div 2)
        /\ build_call.estimation.kind # "ok" =>
              /\ built = Ok(null)
              /\ build_output \in { Nothing, None }

\* C24's case: the node estimated an odd amount of gas and the quote is kept
C24_OddEstimateQuoted ==
    /\ formatter_returned /\ estimate_needed
    /\ build_call.estimation = Ok(21001)
    /\ build_output # Nothing
    /\ IsSome(build_output)

(***************************************************************************)
(* Claim C25                                                               *)
(***************************************************************************)
\* C25: When format_swap_details is called for a placeholder transaction (a field
\* of the transaction descriptor equals the marker "quote"), whatever gas_estimate
\* argument accompanies it, no gas estimation call is made and the cost fields
\* swapCostETH and swapCostUSD are both the literal "none".
C25_PlaceholderCostsNone ==
    (formatter_returned /\ build_call.transaction = PlaceholderTx) =>
        /\ gas_calls.estimate_gas_limit = 0
        /\ gas_calls.estimate_gas = 0
        /\ built.kind = "ok" /\ built.value # null
        /\ built.value.swapCostETH = none
        /\ built.value.swapCostUSD = none

\* C25's case: koi's quote-only call, Some("quote") with the placeholder
C25_PlaceholderWithQuoteMarker ==
    /\ formatter_returned
    /\ build_call.transaction = PlaceholderTx
    /\ build_call.gas_estimate = Some(quote)
    /\ build_call.native_token_details.priceUSD # null

C27_EachProviderOnce ==
    /\ \A i, j \in DOMAIN futures : i # j => services_to_run[i] # services_to_run[j]
    /\ returned_success =>
          \A k, l \in DOMAIN quote_result.value.data :
              k # l => quote_result.value.data[k].name # quote_result.value.data[l].name

\* C27's case: the caller named koi twice and the aggregation succeeded
C27_NamedTwice ==
    /\ returned_success
    /\ "dapps" \in DOMAIN params.options
    /\ params.options.dapps = <<"koi", "koi">>

(***************************************************************************)
(* Claim C28                                                               *)
(***************************************************************************)
\* C28: fetch_token_details resolves every (address, chainId) pair of its input
\* against that pair's own chain id: each returned TokenInfo describes the token at
\* that address on that chain, also when the pairs of one call have different
\* chain ids (a cross-chain request, where the destination token is on toChainId).
C28_EachPairOnItsOwnChain ==
    \A i \in DOMAIN fetched_tokens :
        IsSome(fetched_tokens[i]) =>
            /\ fetched_tokens[i].value.chainId = tokens_with_chain_ids[i][2]
            /\ fetched_tokens[i].value.address
                  = normalize_token_address(tokens_with_chain_ids[i][1])

\* C28's case: a cross-chain call whose three pairs are all resolved
C28_CrossChainResolved ==
    /\ pc = "tokens_net"
    /\ params.fromChainId # params.toChainId
    /\ params.toTokenAddress = USDC
    /\ \A i \in DOMAIN fetched_tokens : IsSome(fetched_tokens[i])

(***************************************************************************)
(* save_token_to_new_tokens called by fetch_token_details calls that run   *)
(* side by side: the handler spawns one route_quote task per request, and  *)
(* the tasks share state.tokens                                            *)
(***************************************************************************)
\* the saves one call makes at most
MaxSaves == 2

\* what fetch_token_from_network hands to save_token_to_new_tokens
TokensToSave ==
    { NetworkToken(UNLISTED, 1), NetworkToken(WETH, 1), NetworkToken(UNLISTED, 324) }

\* lines 111-114: fetch_token_from_network answered, the save is about to start
saver_fetches(task, token_info) ==
    /\ savers[task].stage = "idle"
    /\ Len(savers[task].saved) < MaxSaves
    /\ savers' = [savers EXCEPT ![task] =
                     [ stage |-> "fetched", token_info |-> token_info,
                       saved |-> savers[task].saved ]]
    /\ UNCHANGED << server, formatter, filtering, building >>

\* lines 161-170: the clone of the entry (or an empty object) with the token pushed
saver_reads(task) ==
    /\ savers[task].stage = "fetched"
    /\ savers' = [savers EXCEPT ![task] =
                     [ stage |-> "pushed", token_info |-> savers[task].token_info,
                       new_tokens |-> push_token(get_new_tokens, savers[task].token_info),
                       saved |-> savers[task].saved ]]
    /\ UNCHANGED << server, formatter, filtering, building >>

\* lines 172-173: state.tokens.insert("new_tokens", ..)
saver_inserts(task) ==
    /\ savers[task].stage = "pushed"
    /\ tokens' = insert_new_tokens(savers[task].new_tokens)
    /\ savers' = [savers EXCEPT ![task] =
                     [ stage |-> "idle",
                       saved |-> Append(savers[task].saved, savers[task].token_info) ]]
    /\ UNCHANGED << now, quote_cache, evictions, served, pc, params, stored, locals,
                    quote_result, response, outbound >>
    /\ UNCHANGED << formatter, filtering, building >>

NextSave ==
    \/ \E task \in Savers :
          /\ savers[task].stage = "idle"
          /\ \E token_info \in TokensToSave : saver_fetches(task, token_info)
    \/ \E task \in Savers : saver_reads(task)
    \/ \E task \in Savers : saver_inserts(task)

SpecSave == Init /\ [][NextSave]_vars

\* the tokens recorded under "new_tokens" for a chain
recorded(chain_id) ==
    IF "new_tokens" \in DOMAIN tokens /\ chain_id \in DOMAIN tokens["new_tokens"].chains
    THEN tokens["new_tokens"].chains[chain_id]
    ELSE <<>>

\* no save is under way
savers_idle == \A task \in Savers : savers[task].stage = "idle"

(***************************************************************************)
(* Claim C29                                                               *)
(***************************************************************************)
\* C29: When two aggregations resolve two different uncached tokens from the
\* network concurrently, both tokens end up in the write-through cache entry
\* "new_tokens" under every interleaving (no lost update), and a token resolved
\* several times is recorded there at most once per (chainId, address).
C29_BothRecordedOnce ==
    savers_idle =>
        /\ \A task \in Savers : \A n \in DOMAIN savers[task].saved :
              \E k \in DOMAIN recorded(savers[task].saved[n].chainId) :
                  recorded(savers[task].saved[n].chainId)[k] = savers[task].saved[n]
        /\ \A token_info \in TokensToSave :
              Cardinality({ k \in DOMAIN recorded(token_info.chainId) :
                              recorded(token_info.chainId)[k].address = token_info.address })
                  <= 1

\* C29's case: each of the two calls has saved one token, the two tokens differ and
\* the saves are over
C29_TwoTokensSaved ==
    /\ savers_idle
    /\ Len(savers[1].saved) = 1
    /\ Len(savers[2].saved) = 1
    /\ savers[1].saved[1] # savers[2].saved[1]
    /\ ~\E k \in DOMAIN recorded(savers[1].saved[1].chainId) :
            recorded(savers[1].saved[1].chainId)[k] = savers[1].saved[1]

(***************************************************************************)
(* Claim C30                                                               *)
(***************************************************************************)
\* C30: Storing and evicting an aggregation result touches only the request
\* correlation map: across any sequence of process_quote calls and evictions
\* issued through the quote handler, the key set and the values of the token
\* metadata map (state.tokens) are left unchanged.
C30_StoreAndEvictLeaveTokens ==
    [][ (quote_cache' # quote_cache \/ evictions' # evictions) => tokens' = tokens ]_vars

\* C30's case: an envelope was stored through the handler and evicted again
C30_StoredAndEvicted ==
    /\ stored # {}
    /\ evictions = {}
    /\ DOMAIN quote_cache = {}
    /\ pc = "idle"

====
